---- MODULE Spec2Model ----
(***************************************************************************)
(* Model of the OpenStack source handler of netbox-sync                    *)
(* (module/sources/openstack/connection.py, class OpenStackHandler):       *)
(* identity resolution of hosts and VMs against the NetBox inventory       *)
(* (exact match, MAC correlation, primary-IP correlation), primary-IP      *)
(* arbitration, duplicate-name registries and cluster bookkeeping.         *)
(***************************************************************************)
EXTENDS Integers, Sequences, FiniteSets, TLC

VARIABLES
    set_primary_ip,        \* self.settings.set_primary_ip
    objs,                  \* inventory: NBDevice / NBVM objects, in get_all_items order
    ifaces,                \* inventory: NBInterface / NBVMInterface objects, in order
    ips,                   \* inventory: NBIPAddress objects, in order
    clusters,              \* inventory: NBCluster objects, in order
    permitted_clusters,    \* self.permitted_clusters : cluster name -> site name
    cluster_host_map,      \* self.cluster_host_map   : cluster name -> list of hosts
    processed_host_names,  \* self.processed_host_names : site name -> list of names
    processed_vm_names,    \* self.processed_vm_names : cluster name -> list of names
    object_cache,          \* self.object_cache : cluster name -> NBCluster object
    volume_map,            \* self.volume_map : volume id -> size
    pc,                    \* where apply() is: the phase and the entities it has handled
    last                   \* record of the call that produced the current state

inventory_vars == <<objs, ifaces, ips, clusters>>
session_vars == <<permitted_clusters, cluster_host_map, processed_host_names,
                  processed_vm_names, object_cache, volume_map>>
vars == <<set_primary_ip, inventory_vars, session_vars, pc, last>>

(***************************************************************************)
(* Values                                                                  *)
(***************************************************************************)
\* Python's None where a string is expected (a MAC address)
None == "None"
\* object reference "no object" (an index into objs is 1..Len(objs))
NoObject == 0

NBDevice == "NBDevice"
NBVM == "NBVM"
NBInterface == "NBInterface"
NBVMInterface == "NBVMInterface"

\* An address literal "ip" or "ip/plen": the IP version, the host address and
\* the list of what follows the "/" (empty when the literal has no suffix).
Lit(ver, ip, suffix) == [ver |-> ver, ip |-> ip, suffix |-> suffix]
NoLit == Lit(0, "", <<>>)

\* the address literals of the model
A1 == Lit(4, "10.0.0.1", <<>>)
A1_24 == Lit(4, "10.0.0.1", <<24>>)
A2 == Lit(4, "10.0.0.2", <<>>)
A2_16 == Lit(4, "10.0.0.2", <<16>>)
A3 == Lit(4, "10.0.0.3", <<>>)
A9 == Lit(4, "192.168.0.9", <<>>)
B1 == Lit(6, "fd00::1", <<>>)
B1_64 == Lit(6, "fd00::1", <<64>>)

\* a string that is no IP address, and the test that ip_interface(literal)
\* does not raise ValueError
Invalid == Lit(0, "not-an-ip", <<>>)
valid_literal(lit) == lit.ver \in {4, 6}

\* str.split("/")[0] of an address literal: the literal without its suffix
split_slash_0(lit) == Lit(lit.ver, lit.ip, <<>>)

\* The value of a primary_ip4 / primary_ip6 attribute: unset (None), an
\* embedded dict with an "address", an int (the NetBox id of an IP address)
\* or an NBIPAddress object of the inventory (index into ips).
SlotNone == [form |-> "none", address |-> NoLit, id |-> 0, ip |-> 0]
SlotDict(lit) == [form |-> "dict", address |-> lit, id |-> 0, ip |-> 0]
SlotInt(n) == [form |-> "int", address |-> NoLit, id |-> n, ip |-> 0]
SlotObj(i) == [form |-> "obj", address |-> NoLit, id |-> 0, ip |-> i]

Range(s) == {s[i] : i \in DOMAIN s}

(***************************************************************************)
(* get_object_based_on_macs                                                *)
(***************************************************************************)
\* isinstance(matching_object, (NBDevice, NBVM)): the interface's owner is a
\* resolved object of the inventory (NoObject: unresolved, None or a dict)
is_device_or_vm(o) == o # NoObject

\* the state of the loop over the interfaces: the dict (keys in insertion
\* order, and the counts) and the variable matching_object
MacScanInit == [keys |-> <<>>, count |-> [o \in {} |-> 0], matching_object |-> NoObject]

\* mutant of MacScanStep: the interfaces of both types are looked at
MacScanStep_any_type(st, interface, interface_typ, mac_list) ==
    IF interface.mac_address \notin Range(mac_list) \/ ~is_device_or_vm(interface.owner)
    THEN st
    ELSE IF interface.owner \notin DOMAIN st.count
         THEN [keys |-> Append(st.keys, interface.owner),
               count |-> [o \in DOMAIN st.count \cup {interface.owner} |->
                            IF o = interface.owner THEN 1 ELSE st.count[o]],
               matching_object |-> interface.owner]
         ELSE [keys |-> st.keys,
               count |-> [st.count EXCEPT ![interface.owner] = @ + 1],
               matching_object |-> interface.owner]

\* one iteration of the loop of lines 309-324 on interface `interface`
MacScanStep(st, interface, interface_typ, mac_list) ==
    IF interface.kind # interface_typ \/ interface.mac_address \notin Range(mac_list)
    THEN st
    ELSE LET matching_object == interface.owner IN
         IF ~is_device_or_vm(matching_object)
         THEN [st EXCEPT !.matching_object = matching_object]
         ELSE IF matching_object \notin DOMAIN st.count
              THEN [keys |-> Append(st.keys, matching_object),
                    count |-> [o \in DOMAIN st.count \cup {matching_object} |->
                                 IF o = matching_object THEN 1 ELSE st.count[o]],
                    matching_object |-> matching_object]
              ELSE [keys |-> st.keys,
                    count |-> [st.count EXCEPT ![matching_object] = @ + 1],
                    matching_object |-> matching_object]

RECURSIVE MacScan(_, _, _, _)
MacScan(ifs, n, interface_typ, mac_list) ==
    IF n = 0 THEN MacScanInit
    ELSE MacScanStep(MacScan(ifs, n - 1, interface_typ, mac_list), ifs[n],
                     interface_typ, mac_list)

\* sorted(keys, key=count.get, reverse=True): a stable sort, so keys of equal
\* count keep their order
RECURSIVE InsertByCount(_, _, _)
InsertByCount(sorted, k, count) ==
    IF sorted = <<>> THEN <<k>>
    ELSE IF count[Head(sorted)] >= count[k]
         THEN <<Head(sorted)>> \o InsertByCount(Tail(sorted), k, count)
         ELSE <<k>> \o sorted

RECURSIVE sorted_reverse(_, _)
sorted_reverse(keys, count) ==
    IF keys = <<>> THEN <<>>
    ELSE InsertByCount(sorted_reverse(SubSeq(keys, 1, Len(keys) - 1), count),
                       keys[Len(keys)], count)

\* the threshold of "matching_ration >= 2.0"
RatioThreshold == 2

\* mutant of ratio_high_enough: the ratio must exceed the threshold
ratio_above_threshold(first_choice_matches, second_choice_matches) ==
    first_choice_matches > RatioThreshold * second_choice_matches

\* first_choice_matches / second_choice_matches >= 2.0, on positive integers
ratio_high_enough(first_choice_matches, second_choice_matches) ==
    first_choice_matches >= RatioThreshold * second_choice_matches

get_object_based_on_macs(ifs, object_type, mac_list) ==
    IF Len(mac_list) = 0 THEN NoObject
    ELSE LET interface_typ == IF object_type = NBDevice THEN NBInterface ELSE NBVMInterface
             st == MacScan(ifs, Len(ifs), interface_typ, mac_list)
             num_devices_witch_matching_macs == Len(st.keys)
         IN  IF num_devices_witch_matching_macs = 1 /\ is_device_or_vm(st.matching_object)
             THEN st.keys[1]
             ELSE IF num_devices_witch_matching_macs > 1
             THEN LET choices == sorted_reverse(st.keys, st.count)
                      first_choice == choices[1]
                      second_choice == choices[2]
                  IN  IF ratio_high_enough(st.count[first_choice], st.count[second_choice])
                      THEN first_choice
                      ELSE NoObject
             ELSE NoObject

(***************************************************************************)
(* get_object_based_on_primary_ip                                          *)
(***************************************************************************)
\* self.inventory.get_by_id(NBIPAddress, nb_id=...): the IP address object
\* with that NetBox id, as an index into ips (0 when there is none)
get_by_id(ipseq, nb_id) ==
    IF \E i \in DOMAIN ipseq : ipseq[i].nb_id = nb_id
    THEN CHOOSE i \in DOMAIN ipseq : ipseq[i].nb_id = nb_id
    ELSE 0

matches_device_primary_ip(ipseq, device_primary_ip, ip_needle) ==
    /\ device_primary_ip.form # "none"
    /\ ip_needle # NoLit
    /\ LET ip == IF device_primary_ip.form = "dict" THEN device_primary_ip.address
                 ELSE IF device_primary_ip.form = "int"
                 THEN LET i == get_by_id(ipseq, device_primary_ip.id)
                      IN  IF i = 0 THEN NoLit ELSE ipseq[i].address
                 ELSE NoLit
       IN  ip # NoLit /\ split_slash_0(ip) = ip_needle

\* the loop of lines 412-422 from the n-th object on
RECURSIVE PrimaryIpScan(_, _, _, _, _, _)
PrimaryIpScan(os, ipseq, n, object_type, primary_ip4, primary_ip6) ==
    IF n > Len(os) THEN NoObject
    ELSE IF os[n].type # object_type
         THEN PrimaryIpScan(os, ipseq, n + 1, object_type, primary_ip4, primary_ip6)
         ELSE IF matches_device_primary_ip(ipseq, os[n].primary_ip4, primary_ip4)
              THEN n
              ELSE IF matches_device_primary_ip(ipseq, os[n].primary_ip6, primary_ip6)
                   THEN n
                   ELSE PrimaryIpScan(os, ipseq, n + 1, object_type, primary_ip4, primary_ip6)

\* mutant of get_object_based_on_primary_ip: a full scan on primary_ip4, and a
\* second scan on primary_ip6 only if the first found nothing
get_object_two_scans(os, ipseq, object_type, p4, p6) ==
    LET primary_ip4 == IF p4 # NoLit THEN split_slash_0(p4) ELSE NoLit
        primary_ip6 == IF p6 # NoLit THEN split_slash_0(p6) ELSE NoLit
        on4 == PrimaryIpScan(os, ipseq, 1, object_type, primary_ip4, NoLit)
    IN  IF on4 # NoObject THEN on4
        ELSE PrimaryIpScan(os, ipseq, 1, object_type, NoLit, primary_ip6)

\* p4, p6: the address literals (NoLit for None)
get_object_based_on_primary_ip(os, ipseq, object_type, p4, p6) ==
    IF p4 = NoLit /\ p6 = NoLit THEN NoObject
    ELSE LET primary_ip4 == IF p4 # NoLit THEN split_slash_0(p4) ELSE NoLit
             primary_ip6 == IF p6 # NoLit THEN split_slash_0(p6) ELSE NoLit
         IN  PrimaryIpScan(os, ipseq, 1, object_type, primary_ip4, primary_ip6)

(***************************************************************************)
(* Python dicts (insertion ordered): sequences of <<key, value>> pairs     *)
(***************************************************************************)
DictKeys(d) == {d[i][1] : i \in DOMAIN d}
DictHas(d, k) == k \in DictKeys(d)
DictGet(d, k) == d[CHOOSE i \in DOMAIN d : d[i][1] = k][2]
\* d[k] = v: a present key keeps its position
DictSet(d, k, v) ==
    IF DictHas(d, k) THEN [i \in DOMAIN d |-> IF d[i][1] = k THEN <<k, v>> ELSE d[i]]
    ELSE Append(d, <<k, v>>)
\* d.get(k, list())
DictGetList(d, k) == IF DictHas(d, k) THEN DictGet(d, k) ELSE <<>>

(***************************************************************************)
(* Names, patterns and settings                                            *)
(***************************************************************************)
\* A name is the list of its "/"-separated segments (name.split("/")).
NoName == <<>>
\* "/".join(name.split("/")[1:])
strip_first_segment(name) == IF Len(name) <= 1 THEN <<"">> ELSE Tail(name)

\* a compiled pattern, given by the set of names it matches; an optional
\* pattern (None or a pattern) is a list of at most one pattern
Regex(S) == [matches |-> S]
regex_match(object_regex, name) == name \in object_regex.matches
Relation(object_regex, assigned_name) ==
    [object_regex |-> object_regex, assigned_name |-> assigned_name]

DefaultSite == <<"OpenStack: src">>

\* self.settings of the modelled source
Settings ==
    [ cluster_include_filter |-> <<>>,
      cluster_exclude_filter |-> <<Regex({<<"azx">>})>>,
      host_include_filter |-> <<>>,
      host_exclude_filter |-> <<Regex({<<"hx">>})>>,
      vm_include_filter |-> <<Regex({<<"vm1">>, <<"vm2">>})>>,
      vm_exclude_filter |-> <<>>,
      cluster_site_relation |-> <<Relation(Regex({<<"az1">>}), <<"site1">>)>>,
      host_site_relation |-> <<Relation(Regex({<<"hs">>}), <<"site2">>),
                               Relation(Regex({<<"hs">>}), <<"site3">>)>>,
      host_role_relation |-> <<Relation(Regex({<<"h2">>}), <<"Compute">>)>>,
      vm_role_relation |-> <<Relation(Regex({<<"vm2">>}), <<"Web">>)>>,
      cluster_tenant_relation |-> <<Relation(Regex({<<"az2">>}), <<"tenant1">>)>> ]

(***************************************************************************)
(* passes_filter                                                           *)
(***************************************************************************)
\* mutant of passes_filter: every name passes
passes_filter_always(name, include_filter, exclude_filter) == TRUE

\* mutant of passes_filter: a matching include pattern overrides the exclude
\* pattern
passes_filter_include_wins(name, include_filter, exclude_filter) ==
    IF include_filter # <<>> THEN regex_match(include_filter[1], name)
    ELSE IF exclude_filter # <<>> /\ regex_match(exclude_filter[1], name) THEN FALSE
    ELSE TRUE

passes_filter(name, include_filter, exclude_filter) ==
    IF include_filter # <<>> /\ ~regex_match(include_filter[1], name) THEN FALSE
    ELSE IF exclude_filter # <<>> /\ regex_match(exclude_filter[1], name) THEN FALSE
    ELSE TRUE

(***************************************************************************)
(* get_object_relation                                                     *)
(***************************************************************************)
\* mutant of resolved_list: the stripped name is tried only when no rule
\* matches the full name
resolved_list_full_name_first(rules, n, name, is_cluster) ==
    LET on(x) == SelectSeq(SubSeq(rules, 1, n), LAMBDA r : regex_match(r.object_regex, x))
        assigned(rs) == [k \in DOMAIN rs |-> rs[k].assigned_name]
    IN  IF on(name) # <<>> \/ ~is_cluster THEN assigned(on(name))
        ELSE assigned(on(strip_first_segment(name)))

\* the loop of lines 443-461 over the first n rules: the resolved list
RECURSIVE resolved_list(_, _, _, _)
resolved_list(rules, n, name, is_cluster) ==
    IF n = 0 THEN <<>>
    ELSE LET single_relation == rules[n]
             before == resolved_list(rules, n - 1, name, is_cluster)
         IN  IF regex_match(single_relation.object_regex, name)
             THEN Append(before, single_relation.assigned_name)
             ELSE IF is_cluster /\ regex_match(single_relation.object_regex,
                                               strip_first_segment(name))
                  THEN Append(before, single_relation.assigned_name)
                  ELSE before

\* mutant of get_object_relation: the last match is used
get_object_relation_last_match(name, relation, is_cluster, is_tag, fallback) ==
    LET resolved == resolved_list(relation, Len(relation), name, is_cluster)
    IN  IF is_tag THEN resolved
        ELSE IF Len(resolved) >= 1 THEN resolved[Len(resolved)] ELSE fallback

\* relation: the rules of the setting; is_cluster: the setting's name begins
\* with "cluster"; is_tag: its second word is "tag"; fallback: NoName for None
get_object_relation(name, relation, is_cluster, is_tag, fallback) ==
    LET resolved == resolved_list(relation, Len(relation), name, is_cluster)
    IN  IF is_tag THEN resolved
        ELSE IF Len(resolved) >= 1 THEN resolved[1] ELSE fallback

(***************************************************************************)
(* get_site_name, get_cluster_for_host                                     *)
(***************************************************************************)
cluster_site_name(object_name) ==
    LET site_name == get_object_relation(object_name, Settings.cluster_site_relation,
                                         TRUE, FALSE, NoName)
    IN  IF site_name = NoName THEN DefaultSite ELSE site_name

\* mutant of get_site_name: the host-site rules are not looked at
get_site_name_of_cluster(object_type, object_name, cluster_name) ==
    IF object_type = "NBCluster" THEN cluster_site_name(object_name)
    ELSE cluster_site_name(cluster_name)

get_site_name(object_type, object_name, cluster_name) ==
    IF object_type = "NBCluster" THEN cluster_site_name(object_name)
    ELSE LET site_name == get_object_relation(object_name, Settings.host_site_relation,
                                              FALSE, FALSE, NoName)
         IN  IF site_name = NoName THEN cluster_site_name(cluster_name) ELSE site_name

\* the first cluster, in the order of the dict, that lists the host
get_cluster_for_host(chm, hostname) ==
    IF \E i \in DOMAIN chm : hostname \in Range(chm[i][2])
    THEN chm[CHOOSE i \in DOMAIN chm :
                /\ hostname \in Range(chm[i][2])
                /\ \A j \in 1..(i - 1) : hostname \notin Range(chm[j][2])][1]
    ELSE NoName

(***************************************************************************)
(* Inventory records                                                       *)
(***************************************************************************)
\* an NBDevice / NBVM: name is the primary key, scope the site name (NBDevice)
\* or the cluster name (NBVM) that scopes it, cluster the NBCluster object
Obj(type, name, scope, p4, p6) ==
    [type |-> type, name |-> name, scope |-> scope, cluster |-> 0, status |-> "active",
     role |-> NoName, primary_ip4 |-> p4, primary_ip6 |-> p6]

\* an NBInterface / NBVMInterface: owner is data.device / data.virtual_machine
Iface(kind, owner, name, mac) ==
    [kind |-> kind, owner |-> owner, name |-> name, mac_address |-> mac]

\* an NBIPAddress: interface is the index of the interface it is assigned to
Ip(address, nb_id, is_new, interface) ==
    [address |-> address, nb_id |-> nb_id, is_new |-> is_new, interface |-> interface]

NoDict == <<>>

\* an NBCluster
Cluster(name, site, group, tenant) ==
    [name |-> name, site |-> site, group |-> group, tenant |-> tenant]

\* a prefix of the inventory (read only): the host addresses it contains,
\* its length and its site (NoName: none)
Prefix(hosts, prefixlen, site) == [hosts |-> hosts, prefixlen |-> prefixlen, site |-> site]

(***************************************************************************)
(* Collaborators: ipaddress, the inventory, SourceBase                     *)
(***************************************************************************)
\* ipaddress.ip_interface(literal): a literal without suffix is a host
\* address (/32 or /128)
ip_interface(lit) ==
    [ver |-> lit.ver, ip |-> lit.ip,
     prefixlen |-> IF lit.suffix # <<>> THEN lit.suffix[1]
                   ELSE IF lit.ver = 4 THEN 32 ELSE 128]

\* the prefixes of the inventory
Prefixes ==
    { Prefix({"10.0.0.1", "10.0.0.2", "10.0.0.3"}, 16, NoName),
      Prefix({"10.0.0.1", "10.0.0.3"}, 24, <<"site1">>),
      Prefix({"10.0.0.3"}, 28, <<"site2">>) }

\* SourceBase.return_longest_matching_prefix_for_ip(ip, site_name): the
\* prefix of greatest length among those containing ip (of that site, when a
\* site is given); <<>> when there is none
return_longest_matching_prefix_for_ip(lit, site_name) ==
    LET matching == {q \in Prefixes : /\ lit.ip \in q.hosts
                                      /\ (site_name # NoName => q.site = site_name)}
    IN  IF matching = {} THEN <<>>
        ELSE <<CHOOSE q \in matching : \A r \in matching : r.prefixlen <= q.prefixlen>>

\* f"{ip_addr}/{prefix}"
with_prefix(lit, matched_prefix) ==
    IF matched_prefix # <<>> THEN Lit(lit.ver, lit.ip, <<matched_prefix[1].prefixlen>>)
    ELSE lit

\* the prefix of a VM's address, looked up among the prefixes of the site only
vm_matched_prefix_site_only(lit, site_name) ==
    return_longest_matching_prefix_for_ip(lit, site_name)

\* lines 1111-1113: the prefix of a VM's address, looked up among the
\* prefixes of the site and, if none matches, among all prefixes
vm_matched_prefix(lit, site_name) ==
    IF return_longest_matching_prefix_for_ip(lit, site_name) = <<>>
    THEN return_longest_matching_prefix_for_ip(lit, NoName)
    ELSE return_longest_matching_prefix_for_ip(lit, site_name)

\* line 948: the prefix of a host's address, looked up among all prefixes
host_matched_prefix(lit) == return_longest_matching_prefix_for_ip(lit, NoName)

\* self.settings.permitted_subnets.permitted(ip_addr, interface_name)
ExcludedSubnetHosts == {"192.168.0.9"}
permitted(lit) == lit.ip \notin ExcludedSubnetHosts

\* inventory.get_by_data(object_type, data): the object of that type with the
\* primary key (name) and the scoping attribute (site / cluster) of data
get_by_data(os, object_type, object_data) ==
    LET hit(i) == /\ os[i].type = object_type
                  /\ os[i].name = object_data.name
                  /\ os[i].scope = object_data.scope
    IN  IF \E i \in DOMAIN os : hit(i)
        THEN CHOOSE i \in DOMAIN os : hit(i) /\ \A j \in 1..(i - 1) : ~hit(j)
        ELSE NoObject

\* inventory.add_object(object_type, data): a new object, no primary IP yet
add_object(os, object_type, object_data) ==
    Append(os, [type |-> object_type, name |-> object_data.name,
                scope |-> object_data.scope, cluster |-> object_data.cluster,
                status |-> object_data.status, role |-> NoName,
                primary_ip4 |-> SlotNone, primary_ip6 |-> SlotNone])

\* object.update(data=object_data): the attributes of data are set
update_object(os, i, object_data) ==
    [os EXCEPT ![i] = [@ EXCEPT !.name = object_data.name, !.scope = object_data.scope,
                                !.cluster = object_data.cluster,
                                !.status = object_data.status]]

\* SourceBase.map_object_interfaces_to_current_interfaces, for one declared
\* interface: the interface of the object that has its name (0: none)
mapped_interface(ifs, device_vm_object, int_data) ==
    LET hit(i) == ifs[i].owner = device_vm_object /\ ifs[i].name = int_data.name
    IN  IF \E i \in DOMAIN ifs : hit(i) THEN CHOOSE i \in DOMAIN ifs : hit(i) ELSE 0

\* the inventory's IP address object with this address (0: none)
ip_with_address(ipseq, lit) ==
    LET hit(i) == ip_interface(ipseq[i].address) = ip_interface(lit)
    IN  IF \E i \in DOMAIN ipseq : hit(i) THEN CHOOSE i \in DOMAIN ipseq : hit(i) ELSE 0

\* SourceBase.add_update_interface, the interface: the mapped interface is
\* updated with the declared data, a missing one is created
add_update_nic(ifs, nic_object, device_vm_object, object_type, int_data) ==
    IF nic_object = 0
    THEN Append(ifs, Iface(IF object_type = NBDevice THEN NBInterface ELSE NBVMInterface,
                           device_vm_object, int_data.name, int_data.mac_address))
    ELSE [ifs EXCEPT ![nic_object] =
             [@ EXCEPT !.mac_address = IF int_data.mac_address # None
                                       THEN int_data.mac_address ELSE @]]

\* SourceBase.add_update_interface, the addresses from the n-th on: an address
\* the permitted-subnet policy rejects is skipped, the others are attached to
\* the interface (the IP address object is created when the inventory has
\* none). Returns the IP address objects and the list of those returned.
RECURSIVE add_update_ips(_, _, _, _)
add_update_ips(st, nic, ip_list, n) ==
    IF n > Len(ip_list) THEN st
    ELSE LET lit == ip_list[n] IN
         IF ~permitted(lit) THEN add_update_ips(st, nic, ip_list, n + 1)
         ELSE LET found == ip_with_address(st.ips, lit)
                  ips1 == IF found = 0 THEN Append(st.ips, Ip(lit, 0, TRUE, nic))
                          ELSE [st.ips EXCEPT ![found].interface = nic]
                  this == IF found = 0 THEN Len(st.ips) + 1 ELSE found
              IN  add_update_ips([ips |-> ips1, ip_address_objects |->
                                     Append(st.ip_address_objects, this)],
                                 nic, ip_list, n + 1)

(***************************************************************************)
(* add_device_vm_to_inventory                                              *)
(***************************************************************************)
primary_slot(o, ip_version) == IF ip_version = 4 THEN o.primary_ip4 ELSE o.primary_ip6

set_primary_slot(o, ip_version, v) ==
    IF ip_version = 4 THEN [o EXCEPT !.primary_ip4 = v] ELSE [o EXCEPT !.primary_ip6 = v]

\* mutant of unset_on_others: no other device or VM is touched
unset_on_none(os, ipseq, device_vm_object, ip_object, ip_version) == os

\* mutant of unset_on_others: primary_ip{version} is unset on every other
\* device and VM, whatever it holds
unset_on_every_other(os, ipseq, device_vm_object, ip_object, ip_version) ==
    IF ipseq[ip_object].is_new THEN os
    ELSE [i \in DOMAIN os |->
            IF i # device_vm_object THEN set_primary_slot(os[i], ip_version, SlotNone)
            ELSE os[i]]

\* lines 659-676: unless the IP address object is new, primary_ip{version} is
\* unset on every other device and VM that has this object assigned
unset_on_others(os, ipseq, device_vm_object, ip_object, ip_version) ==
    IF ipseq[ip_object].is_new THEN os
    ELSE [i \in DOMAIN os |->
            IF i # device_vm_object /\ primary_slot(os[i], ip_version) = SlotObj(ip_object)
            THEN set_primary_slot(os[i], ip_version, SlotNone)
            ELSE os[i]]

\* mutant of set_update_primary_ip: "when-undefined" also overwrites a
\* primary IP that is set
set_update_primary_ip_overwriting(os, ipseq, device_vm_object, ip_object, policy) ==
    LET ip_version == ipseq[ip_object].address.ver
        os1 == IF policy = "always"
               THEN unset_on_others(os, ipseq, device_vm_object, ip_object, ip_version)
               ELSE os
    IN  IF policy # "never"
        THEN [os1 EXCEPT ![device_vm_object] =
                 set_primary_slot(@, ip_version, SlotObj(ip_object))]
        ELSE os1

\* mutant of set_update_primary_ip: "never" sets a primary IP that is undefined
set_update_primary_ip_if_undefined(os, ipseq, device_vm_object, ip_object, policy) ==
    LET ip_version == ipseq[ip_object].address.ver
        os1 == IF policy = "always"
               THEN unset_on_others(os, ipseq, device_vm_object, ip_object, ip_version)
               ELSE os
    IN  IF policy = "always" \/ primary_slot(os[device_vm_object], ip_version) = SlotNone
        THEN [os1 EXCEPT ![device_vm_object] =
                 set_primary_slot(@, ip_version, SlotObj(ip_object))]
        ELSE os1

\* lines 654-688: set/update/remove primary IP addresses, for one IP address
\* object that equals a declared primary IP
set_update_primary_ip(os, ipseq, device_vm_object, ip_object, policy) ==
    LET ip_version == ipseq[ip_object].address.ver
        os1 == IF policy = "always"
               THEN unset_on_others(os, ipseq, device_vm_object, ip_object, ip_version)
               ELSE os
        set_this_primary_ip ==
            IF policy = "always" THEN TRUE
            ELSE /\ policy # "never"
                 /\ primary_slot(os[device_vm_object], ip_version) = SlotNone
    IN  IF set_this_primary_ip
        THEN [os1 EXCEPT ![device_vm_object] =
                 set_primary_slot(@, ip_version, SlotObj(ip_object))]
        ELSE os1

\* mutant of is_primary: every IP address object of the interface counts
is_any_ip(address, primaries) == TRUE

\* lines 649-652: the address is a primary IP
is_primary(address, primaries) == ip_interface(address) \in primaries

\* lines 643-688: the IP address objects of one interface, from the n-th on;
\* st.arbs lists the IP address objects the primary-IP step ran for
RECURSIVE ip_object_loop(_, _, _, _)
ip_object_loop(st, ctx, ip_address_objects, n) ==
    IF n > Len(ip_address_objects) THEN st
    ELSE IF ~is_primary(st.ips[ip_address_objects[n]].address, ctx.primaries)
         THEN ip_object_loop(st, ctx, ip_address_objects, n + 1)
         ELSE ip_object_loop(
                [st EXCEPT !.objs = set_update_primary_ip(st.objs, st.ips,
                                        st.device_vm_object, ip_address_objects[n],
                                        ctx.policy),
                           !.arbs = Append(@, [ip_object |-> ip_address_objects[n],
                                               ip_version |->
                                                   st.ips[ip_address_objects[n]].address.ver,
                                               is_new |->
                                                   st.ips[ip_address_objects[n]].is_new])],
                ctx, ip_address_objects, n + 1)

\* lines 643-688 for one interface: ifs1 and got are the interfaces and the
\* IP address objects that add_update_interface left
nic_ip_step(st, ctx, ifs1, got) ==
    ip_object_loop([st EXCEPT !.ifaces = ifs1, !.ips = got.ips], ctx,
                   got.ip_address_objects, 1)

\* lines 637-688: one declared interface, nic_object being the interface of
\* the object it was mapped to (0: none)
nic_step(st, ctx, int_name, int_data, nic_object) ==
    nic_ip_step(st, ctx,
                add_update_nic(st.ifaces, nic_object, st.device_vm_object, ctx.object_type,
                               int_data),
                add_update_ips([ips |-> st.ips, ip_address_objects |-> <<>>],
                               IF nic_object = 0 THEN Len(st.ifaces) + 1 ELSE nic_object,
                               DictGetList(ctx.nic_ips, int_name), 1))

\* lines 636-688: the declared interfaces from the n-th on
RECURSIVE nic_loop(_, _, _)
nic_loop(st, ctx, n) ==
    IF n > Len(ctx.nic_data) THEN st
    ELSE nic_loop(nic_step(st, ctx, ctx.nic_data[n][1], ctx.nic_data[n][2],
                           mapped_interface(ctx.ifaces0, st.device_vm_object,
                                            ctx.nic_data[n][2])),
                  ctx, n + 1)

\* {**pnic_data, **vnic_data}
RECURSIVE dict_merge(_, _)
dict_merge(a, b) ==
    IF b = <<>> THEN a ELSE dict_merge(DictSet(a, b[1][1], b[1][2]), Tail(b))

\* [x.get("mac_address") for x in mac_source_data.values() if ... is not None]
RECURSIVE nic_macs_of(_)
nic_macs_of(mac_source_data) ==
    IF mac_source_data = <<>> THEN <<>>
    ELSE IF mac_source_data[1][2].mac_address # None
         THEN <<mac_source_data[1][2].mac_address>> \o nic_macs_of(Tail(mac_source_data))
         ELSE nic_macs_of(Tail(mac_source_data))

\* the object found (NoObject: none) and the tier that found it
Found(device_vm_object, tier) == [device_vm_object |-> device_vm_object, tier |-> tier]

\* lines 583-588: look for devices with the same primary IP
find_by_primary_ip(by_ip) ==
    IF by_ip # NoObject THEN Found(by_ip, "ip") ELSE Found(NoObject, "none")

\* mutant of find_after_macs: no MAC result means a new object
find_without_primary_ip(inv, object_type, by_mac, p_ipv4, p_ipv6) ==
    IF by_mac # NoObject THEN Found(by_mac, "mac") ELSE Found(NoObject, "none")

\* lines 571-588, by_mac being the result of get_object_based_on_macs
find_after_macs(inv, object_type, by_mac, p_ipv4, p_ipv6) ==
    IF by_mac # NoObject THEN Found(by_mac, "mac")
    ELSE find_by_primary_ip(get_object_based_on_primary_ip(inv.objs, inv.ips, object_type,
                                                           p_ipv4, p_ipv6))

\* mutant of find_after_exact: the MAC addresses are consulted first
find_macs_before_exact(inv, object_type, exact, mac_source_data, p_ipv4, p_ipv6) ==
    IF get_object_based_on_macs(inv.ifaces, object_type,
                                nic_macs_of(mac_source_data)) # NoObject
    THEN Found(get_object_based_on_macs(inv.ifaces, object_type,
                                        nic_macs_of(mac_source_data)), "mac")
    ELSE IF exact # NoObject THEN Found(exact, "exact")
    ELSE find_by_primary_ip(get_object_based_on_primary_ip(inv.objs, inv.ips, object_type,
                                                           p_ipv4, p_ipv6))

\* lines 563-588, exact being the result of inventory.get_by_data
find_after_exact(inv, object_type, exact, mac_source_data, p_ipv4, p_ipv6) ==
    IF exact # NoObject THEN Found(exact, "exact")
    ELSE find_after_macs(inv, object_type,
                         get_object_based_on_macs(inv.ifaces, object_type,
                                                  nic_macs_of(mac_source_data)),
                         p_ipv4, p_ipv6)

\* lines 561-588: the object found and the tier that found it
find_object(inv, object_type, object_data, pnic_data, vnic_data, p_ipv4, p_ipv6) ==
    find_after_exact(inv, object_type, get_by_data(inv.objs, object_type, object_data),
                     IF object_type = NBVM THEN vnic_data ELSE pnic_data, p_ipv4, p_ipv6)

\* the role of a VM is cleared when no rule matches
role_updated_or_cleared(os, i, object_type, role_name) ==
    IF object_type = NBDevice
    THEN [os EXCEPT ![i].role = IF role_name = NoName THEN <<"Server">> ELSE role_name]
    ELSE [os EXCEPT ![i].role = role_name]

\* lines 597-607: update role according to config settings
role_updated(os, i, object_type, role_name) ==
    IF object_type = NBDevice
    THEN [os EXCEPT ![i].role = IF role_name = NoName THEN <<"Server">> ELSE role_name]
    ELSE IF role_name # NoName THEN [os EXCEPT ![i].role = role_name] ELSE os

update_role(os, i, object_type, object_name) ==
    role_updated(os, i, object_type,
                 get_object_relation(object_name,
                     IF object_type = NBDevice THEN Settings.host_role_relation
                     ELSE Settings.vm_role_relation, FALSE, FALSE, NoName))

\* the state of add_device_vm_to_inventory once it has its object: the
\* inventory, the object, the tier that found it, whether it was created, and
\* the list arbs
Have(inv, os, device_vm_object, tier, created) ==
    [objs |-> os, ifaces |-> inv.ifaces, ips |-> inv.ips, arbs |-> <<>>,
     device_vm_object |-> device_vm_object, tier |-> tier, created |-> created]

\* lines 590-607: the object found is updated, a missing one is created
add_or_update(inv, object_type, object_data, found) ==
    IF found.device_vm_object = NoObject
    THEN Have(inv, update_role(add_object(inv.objs, object_type, object_data),
                               Len(inv.objs) + 1, object_type, object_data.name),
              Len(inv.objs) + 1, found.tier, TRUE)
    ELSE Have(inv, update_role(update_object(inv.objs, found.device_vm_object, object_data),
                               found.device_vm_object, object_type, object_data.name),
              found.device_vm_object, found.tier, FALSE)

\* inv: the inventory [objs, ifaces, ips]. The result is the inventory after
\* the call, with the object found or created (device_vm_object), the tier
\* that found it, whether it was created, and the list arbs.
add_device_vm_to_inventory(inv, policy, object_type, object_data, pnic_data, vnic_data, nic_ips, p_ipv4, p_ipv6) ==
    nic_loop(add_or_update(inv, object_type, object_data,
                           find_object(inv, object_type, object_data, pnic_data, vnic_data,
                                       p_ipv4, p_ipv6)),
             [nic_data |-> IF object_type = NBVM THEN vnic_data
                           ELSE dict_merge(pnic_data, vnic_data),
              nic_ips |-> nic_ips, ifaces0 |-> inv.ifaces, object_type |-> object_type,
              primaries |-> {ip_interface(q) : q \in {p_ipv4, p_ipv6} \ {NoLit}},
              policy |-> policy],
             1)

\* the dicts and lists of __init__ (lines 93-100)
SessionInit ==
    /\ permitted_clusters = NoDict
    /\ cluster_host_map = NoDict
    /\ processed_host_names = NoDict
    /\ processed_vm_names = NoDict
    /\ object_cache = NoDict
    /\ volume_map = NoDict

(***************************************************************************)
(* add_cluster                                                             *)
(***************************************************************************)
GroupName == <<"OpenStack">>

\* mutant of select_cluster: a candidate matching on the site is preferred to
\* any matching on the group, and that one to any matching on the tenant
select_cluster_by_priority(cs, n, name, site_name, tenant_name, fallback) ==
    LET named == {k \in DOMAIN cs : cs[k].name = name}
        on_site == {k \in named : cs[k].site = site_name}
        on_group == {k \in named : cs[k].group = GroupName}
        on_tenant == {k \in named : tenant_name # NoName /\ cs[k].tenant = tenant_name}
        first(M) == CHOOSE k \in M : \A m \in M : k <= m
    IN  IF on_site # {} THEN first(on_site)
        ELSE IF on_group # {} THEN first(on_group)
        ELSE IF on_tenant # {} THEN first(on_tenant)
        ELSE IF named # {} THEN first(named) ELSE 0

\* lines 764-800: the candidates from the n-th on; fallback is
\* fallback_cluster_object (0: None)
RECURSIVE select_cluster(_, _, _, _, _, _)
select_cluster(cs, n, name, site_name, tenant_name, fallback) ==
    IF n > Len(cs) THEN fallback
    ELSE LET cluster_candidate == cs[n] IN
         IF cluster_candidate.name # name
         THEN select_cluster(cs, n + 1, name, site_name, tenant_name, fallback)
         ELSE IF cluster_candidate.site = site_name THEN n
         ELSE IF cluster_candidate.group # NoName /\ cluster_candidate.group = GroupName THEN n
         ELSE IF /\ cluster_candidate.tenant # NoName
                 /\ tenant_name # NoName
                 /\ cluster_candidate.tenant = tenant_name
              THEN n
         ELSE select_cluster(cs, n + 1, name, site_name, tenant_name,
                             IF fallback = 0 THEN n ELSE fallback)

\* mutant of permit_cluster: the cluster is not recorded as permitted
permit_no_cluster(pcs, name, site_name) == pcs

\* line 813: self.permitted_clusters[name] = site_name
permit_cluster(pcs, name, site_name) == DictSet(pcs, name, site_name)

\* obj: an availability zone [name, hosts]
add_cluster(obj) ==
    LET name == obj.name IN
    IF name = NoName
    THEN /\ UNCHANGED <<inventory_vars, session_vars>>
         /\ last' = [op |-> "add_cluster", name |-> name, skip |-> "name"]
    ELSE IF ~passes_filter(name, Settings.cluster_include_filter,
                           Settings.cluster_exclude_filter)
    THEN /\ UNCHANGED <<inventory_vars, session_vars>>
         /\ last' = [op |-> "add_cluster", name |-> name, skip |-> "filter"]
    ELSE LET site_name == get_site_name("NBCluster", name, NoName)
             tenant_name == get_object_relation(name, Settings.cluster_tenant_relation,
                                                TRUE, FALSE, NoName)
             found == select_cluster(clusters, 1, name, site_name, tenant_name, 0)
             cluster_object == IF found # 0 THEN found ELSE Len(clusters) + 1
         IN  /\ clusters' =
                   IF found # 0
                   THEN [clusters EXCEPT ![found] =
                            [@ EXCEPT !.site = site_name, !.group = GroupName,
                                      !.tenant = IF tenant_name # NoName
                                                 THEN tenant_name ELSE @]]
                   ELSE Append(clusters, Cluster(name, site_name, GroupName, tenant_name))
             /\ object_cache' = DictSet(object_cache, name, cluster_object)
             /\ cluster_host_map' = DictSet(cluster_host_map, name, obj.hosts)
             /\ permitted_clusters' = permit_cluster(permitted_clusters, name, site_name)
             /\ UNCHANGED <<objs, ifaces, ips, processed_host_names, processed_vm_names,
                            volume_map>>
             /\ last' = [op |-> "add_cluster", name |-> name, skip |-> "no",
                         before |-> clusters, site_name |-> site_name,
                         tenant_name |-> tenant_name,
                         cluster_object |-> cluster_object, created |-> found = 0]

(***************************************************************************)
(* add_host                                                                *)
(***************************************************************************)
\* the record of a host or VM that was skipped
Skipped(op, obj, object_type, name, scope, why) ==
    [op |-> op, obj |-> obj, type |-> object_type, name |-> name, scope |-> scope,
     skip |-> why]

\* the arguments of a call of add_device_vm_to_inventory
Args(pnic_data, vnic_data, nic_ips, p_ipv4, p_ipv6) ==
    [pnic_data |-> pnic_data, vnic_data |-> vnic_data, nic_ips |-> nic_ips,
     p_ipv4 |-> p_ipv4, p_ipv6 |-> p_ipv6]

\* the record of a host or VM that reached add_device_vm_to_inventory: the
\* arguments of the call, the inventory before it and what it did (r)
Reconciled(op, obj, object_type, name, scope, args, r) ==
    [op |-> op, obj |-> obj, type |-> object_type, name |-> name, scope |-> scope,
     skip |-> "no",
     args |-> args, before |-> [objs |-> objs, ifaces |-> ifaces, ips |-> ips],
     device_vm_object |-> r.device_vm_object, tier |-> r.tier, created |-> r.created,
     arbs |-> r.arbs]

\* the inventory changes to the result r of add_device_vm_to_inventory
InventoryBecomes(r) == objs' = r.objs /\ ifaces' = r.ifaces /\ ips' = r.ips

\* the call add_device_vm_to_inventory(object_type, object_data, ...args)
Reconcile(op, obj, object_type, object_data, args, r) ==
    /\ InventoryBecomes(r)
    /\ last' = Reconciled(op, obj, object_type, object_data.name, object_data.scope, args, r)

call_add_device_vm_to_inventory(op, obj, object_type, object_data, args) ==
    Reconcile(op, obj, object_type, object_data, args,
              add_device_vm_to_inventory([objs |-> objs, ifaces |-> ifaces, ips |-> ips],
                                         set_primary_ip, object_type, object_data,
                                         args.pnic_data, args.vnic_data, args.nic_ips,
                                         args.p_ipv4, args.p_ipv6))

\* mutant of already_processed: no name counts as processed
never_processed(processed_names, scope, name) == FALSE

\* mutant of already_processed: the name counts as processed if any scope
\* has it
processed_in_any_scope(processed_names, scope, name) ==
    \E i \in DOMAIN processed_names : name \in Range(processed_names[i][2])

\* name in self.processed_host_names.get(site_name, list()), and the same on
\* self.processed_vm_names
already_processed(processed_names, scope, name) ==
    name \in Range(DictGetList(processed_names, scope))

\* lines 905-965 of add_host, ip_addr being the host address with its prefix
add_host_data(obj, name, site_name, nb_cluster_object, status, ip_addr) ==
    call_add_device_vm_to_inventory("add_host", obj, NBDevice,
        [name |-> name, scope |-> site_name, cluster |-> nb_cluster_object,
         status |-> status],
        Args(<< <<"eth0", [name |-> "eth0", mac_address |-> None]>> >>, <<>>,
             << <<"eth0", <<ip_addr>> >> >>, ip_addr, NoLit))

\* obj: a hypervisor [name, host (service_details["host"]), host_ip, status]
add_host(obj) ==
    LET name == obj.name
        short_name == obj.host
        cluster_name == get_cluster_for_host(cluster_host_map, short_name)
    IN
    IF cluster_name = NoName
    THEN /\ UNCHANGED <<inventory_vars, session_vars>>
         /\ last' = Skipped("add_host", obj, NBDevice, name, NoName, "cluster")
    ELSE IF ~DictHas(permitted_clusters, cluster_name)
    THEN /\ UNCHANGED <<inventory_vars, session_vars>>
         /\ last' = Skipped("add_host", obj, NBDevice, name, NoName, "not_permitted")
    ELSE LET nb_cluster_object == DictGet(object_cache, cluster_name)
             site_name == get_site_name(NBDevice, name, cluster_name)
         IN
         IF already_processed(processed_host_names, site_name, name)
         THEN /\ UNCHANGED <<inventory_vars, session_vars>>
              /\ last' = Skipped("add_host", obj, NBDevice, name, site_name, "duplicate")
         ELSE /\ processed_host_names' =
                    DictSet(processed_host_names, site_name,
                            Append(DictGetList(processed_host_names, site_name), name))
              /\ UNCHANGED <<clusters, permitted_clusters, cluster_host_map,
                             processed_vm_names, object_cache, volume_map>>
              /\ IF ~passes_filter(name, Settings.host_include_filter,
                                   Settings.host_exclude_filter)
                 THEN /\ UNCHANGED <<objs, ifaces, ips>>
                      /\ last' = Skipped("add_host", obj, NBDevice, name, site_name, "filter")
                 ELSE IF ~valid_literal(obj.host_ip)
                 THEN \* ip_interface(ip_addr) raises ValueError (line 948)
                      /\ UNCHANGED <<objs, ifaces, ips>>
                      /\ last' = Skipped("add_host", obj, NBDevice, name, site_name,
                                         "ValueError")
                 ELSE add_host_data(obj, name, site_name, nb_cluster_object,
                                    IF obj.status = "enabled" THEN "active" ELSE "offline",
                                    with_prefix(obj.host_ip,
                                                host_matched_prefix(obj.host_ip)))

(***************************************************************************)
(* add_volume                                                              *)
(***************************************************************************)
\* obj: a volume [id, size]
add_volume(obj) ==
    /\ volume_map' = DictSet(volume_map, obj.id, obj.size)
    /\ UNCHANGED <<inventory_vars, permitted_clusters, cluster_host_map,
                   processed_host_names, processed_vm_names, object_cache>>
    /\ last' = [op |-> "add_volume", id |-> obj.id]

(***************************************************************************)
(* add_virtual_machine                                                     *)
(***************************************************************************)
\* module.common.support.normalize_mac_address: upper case
normalize_mac_address(mac) ==
    IF mac = "fa:16:3e:00:00:01" THEN "FA:16:3E:00:00:01"
    ELSE IF mac = "fa:16:3e:00:00:02" THEN "FA:16:3E:00:00:02"
    ELSE mac

\* f"vNIC{count} ({network})"
vnic_full_name(count, network) == "vNIC" \o ToString(count) \o " (" \o network \o ")"

\* mutant of vm_nic_dict_with: an address that is not permitted takes the
\* interface of its network out of vm_nic_dict
vm_nic_dict_dropping(vm_nic_dict, network, vm_nic_data, ip_addr) ==
    IF permitted(ip_addr) THEN DictSet(vm_nic_dict, network, vm_nic_data)
    ELSE SelectSeq(vm_nic_dict, LAMBDA e : e[1] # network)

\* lines 1131-1134: the interface of the network is declared if the address
\* is permitted
vm_nic_dict_with(vm_nic_dict, network, vm_nic_data, ip_addr) ==
    IF permitted(ip_addr) THEN DictSet(vm_nic_dict, network, vm_nic_data)
    ELSE vm_nic_dict

\* mutant of vm_primary_ip: an address that is not permitted is not declared
\* as primary
vm_primary_ip_if_permitted(current, address, ip_addr, version) ==
    IF address.version = version /\ permitted(ip_addr) THEN ip_addr ELSE current

\* lines 1116-1119: vm_primary_ip4 / vm_primary_ip6 after one address
vm_primary_ip(current, address, ip_addr, version) ==
    IF address.version = version THEN ip_addr ELSE current

\* lines 1107-1134: the addresses of one network from the n-th on
RECURSIVE vm_address_loop(_, _, _, _, _, _)
vm_address_loop(st, network, count, addresses, n, site_name) ==
    IF n > Len(addresses) THEN st
    ELSE LET address == addresses[n]
             matched_prefix == vm_matched_prefix(address.addr, site_name)
             ip_addr == with_prefix(address.addr, matched_prefix)
             full_name == vnic_full_name(count, network)
             vm_nic_data == [name |-> full_name,
                             mac_address |-> normalize_mac_address(address.mac_addr)]
         IN  vm_address_loop(
                [nic_ips |-> DictSet(st.nic_ips, network,
                                     Append(DictGet(st.nic_ips, network), ip_addr)),
                 vm_primary_ip4 |-> vm_primary_ip(st.vm_primary_ip4, address, ip_addr, 4),
                 vm_primary_ip6 |-> vm_primary_ip(st.vm_primary_ip6, address, ip_addr, 6),
                 vm_nic_dict |-> vm_nic_dict_with(st.vm_nic_dict, network, vm_nic_data,
                                                  ip_addr)],
                network, count, addresses, n + 1, site_name)

\* lines 1098-1134: obj.addresses.items() from the count-th network on
RECURSIVE vm_network_loop(_, _, _, _)
vm_network_loop(st, addresses, count, site_name) ==
    IF count > Len(addresses) THEN st
    ELSE LET network == addresses[count][1]
         IN  vm_network_loop(
                vm_address_loop([st EXCEPT !.nic_ips = DictSet(@, network, <<>>)],
                                network, count, addresses[count][2], 1, site_name),
                addresses, count + 1, site_name)

\* lines 1136-1140 of add_virtual_machine, a being what the loop over
\* obj.addresses collected
add_vm_data(obj, name, cluster_name, nb_cluster_object, status, a) ==
    call_add_device_vm_to_inventory("add_virtual_machine", obj, NBVM,
        [name |-> name, scope |-> cluster_name, cluster |-> nb_cluster_object,
         status |-> status],
        Args(<<>>, a.vm_nic_dict, a.nic_ips, a.vm_primary_ip4, a.vm_primary_ip6))

\* obj: a server [name, status, availability_zone, attached_volumes, addresses]
add_virtual_machine(obj) ==
    LET name == obj.name
        status == IF obj.status = "ACTIVE" THEN "active" ELSE "offline"
        cluster_name == obj.availability_zone
    IN
    IF cluster_name = NoName
    THEN /\ UNCHANGED <<inventory_vars, session_vars>>
         /\ last' = Skipped("add_virtual_machine", obj, NBVM, name, NoName, "cluster")
    ELSE IF ~DictHas(permitted_clusters, cluster_name)
    THEN /\ UNCHANGED <<inventory_vars, session_vars>>
         /\ last' = Skipped("add_virtual_machine", obj, NBVM, name, cluster_name, "not_permitted")
    ELSE IF already_processed(processed_vm_names, cluster_name, name)
    THEN /\ UNCHANGED <<inventory_vars, session_vars>>
         /\ last' = Skipped("add_virtual_machine", obj, NBVM, name, cluster_name, "duplicate")
    ELSE /\ processed_vm_names' =
               DictSet(processed_vm_names, cluster_name,
                       Append(DictGetList(processed_vm_names, cluster_name), name))
         /\ UNCHANGED <<clusters, permitted_clusters, cluster_host_map,
                        processed_host_names, object_cache, volume_map>>
         /\ IF ~passes_filter(name, Settings.vm_include_filter, Settings.vm_exclude_filter)
            THEN /\ UNCHANGED <<objs, ifaces, ips>>
                 /\ last' = Skipped("add_virtual_machine", obj, NBVM, name, cluster_name, "filter")
            ELSE IF \E i \in DOMAIN obj.attached_volumes :
                        ~DictHas(volume_map, obj.attached_volumes[i])
            THEN \* self.volume_map[volid] raises KeyError
                 /\ UNCHANGED <<objs, ifaces, ips>>
                 /\ last' = Skipped("add_virtual_machine", obj, NBVM, name, cluster_name, "KeyError")
            ELSE IF \E i \in DOMAIN obj.addresses : \E j \in DOMAIN obj.addresses[i][2] :
                        ~valid_literal(obj.addresses[i][2][j].addr)
            THEN \* ip_interface(ip_addr) raises ValueError (line 1111)
                 /\ UNCHANGED <<objs, ifaces, ips>>
                 /\ last' = Skipped("add_virtual_machine", obj, NBVM, name, cluster_name,
                                    "ValueError")
            ELSE add_vm_data(obj, name, cluster_name, DictGet(object_cache, cluster_name), status,
                             vm_network_loop([nic_ips |-> <<>>, vm_nic_dict |-> <<>>,
                                              vm_primary_ip4 |-> NoLit,
                                              vm_primary_ip6 |-> NoLit],
                                             obj.addresses, 1,
                                             get_site_name("NBCluster", cluster_name, NoName)))

(***************************************************************************)
(* The source: what the OpenStack session delivers                         *)
(***************************************************************************)

AvailabilityZones ==
    { [name |-> <<"az1">>, hosts |-> <<"c1">>],
      [name |-> <<"az2">>, hosts |-> <<"c2">>],
      [name |-> <<"azx">>, hosts |-> <<"c1">>] }

\* the MAC address of the hypervisors' network interface (the same on all of
\* them); add_host reads no MAC address from the hypervisor
HostMac == "AA:BB:CC:DD:EE:FF"

Hypervisor(name, host, host_ip) ==
    [name |-> name, host |-> host, host_ip |-> host_ip, status |-> "enabled",
     mac_address |-> HostMac]

Hypervisors ==
    { Hypervisor(<<"h1">>, "c1", A1), Hypervisor(<<"h1">>, "c2", A1),
      Hypervisor(<<"h2">>, "c1", A1), Hypervisor(<<"h1">>, "c1", A2),
      Hypervisor(<<"hx">>, "c1", A1), Hypervisor(<<"h1">>, "c9", A1),
      Hypervisor(<<"h1">>, "c1", Invalid), Hypervisor(<<"h1">>, "c1", A3),
      Hypervisor(<<"hs">>, "c1", A1) }

Volumes == { [id |-> "vol1", size |-> 10] }

Address(addr, mac_addr) == [addr |-> addr, version |-> addr.ver, mac_addr |-> mac_addr]
Mac1 == "fa:16:3e:00:00:01"
Mac2 == "fa:16:3e:00:00:02"

Server(name, status, availability_zone, attached_volumes, addresses) ==
    [name |-> name, status |-> status, availability_zone |-> availability_zone,
     attached_volumes |-> attached_volumes, addresses |-> addresses]

Net1(addresses) == << <<"net1", addresses>> >>

Servers ==
    { Server(<<"vm1">>, "ACTIVE", <<"az1">>, <<>>, Net1(<<Address(A1, Mac1)>>)),
      Server(<<"vm2">>, "ACTIVE", <<"az1">>, <<>>, Net1(<<Address(A1, Mac1)>>)),
      Server(<<"vm1">>, "ACTIVE", <<"az2">>, <<>>, Net1(<<Address(A1, Mac1)>>)),
      Server(<<"vm2">>, "ACTIVE", <<"az1">>, <<>>, Net1(<<Address(A1, Mac2)>>)),
      Server(<<"vm2">>, "ACTIVE", <<"az1">>, <<>>, Net1(<<Address(A2, Mac2)>>)),
      Server(<<"vm1">>, "ACTIVE", <<"az1">>, <<>>,
             Net1(<<Address(A1, Mac1), Address(B1, Mac1)>>)),
      Server(<<"vm1">>, "ACTIVE", <<"az1">>, <<>>,
             Net1(<<Address(A1, Mac1)>>) \o << <<"net2", <<Address(A9, Mac2)>> >> >>),
      Server(<<"vm1">>, "ACTIVE", <<"az1">>, <<>>,
             Net1(<<Address(A1, Mac1), Address(A9, Mac1)>>)),
      Server(<<"vm1">>, "ACTIVE", <<"az1">>, <<>>, <<>>),
      Server(<<"vm1">>, "ACTIVE", <<"az1">>, <<>>,
             Net1(<<Address(A1, Mac1)>>) \o << <<"net2", <<Address(A1, Mac2)>> >> >>),
      Server(<<"vm1">>, "ACTIVE", <<"az1">>, <<>>, Net1(<<Address(A3, Mac1)>>)),
      Server(<<"vm1">>, "ACTIVE", <<"az1">>, <<>>,
             Net1(<<Address(A1, Mac1), Address(Invalid, Mac1)>>)),
      Server(<<"vm1">>, "SHUTOFF", <<"az1">>, <<>>, Net1(<<Address(A1, Mac1)>>)),
      Server(<<"vmx">>, "ACTIVE", <<"az1">>, <<>>, Net1(<<Address(A1, Mac1)>>)),
      Server(<<"vm1">>, "ACTIVE", NoName, <<>>, Net1(<<Address(A1, Mac1)>>)),
      Server(<<"vm1">>, "ACTIVE", <<"az1">>, <<"vol1">>, Net1(<<Address(A1, Mac1)>>)) }

(***************************************************************************)
(* The inventory read from NetBox before the run                           *)
(***************************************************************************)
Device(name, site, p4) == Obj(NBDevice, name, site, p4, SlotNone)
VM(name, cluster, p4, p6) == Obj(NBVM, name, cluster, p4, p6)
VNic(owner, mac) == Iface(NBVMInterface, owner, "vNIC1 (net1)", mac)
WithRole(o, role) == [o EXCEPT !.role = role]
Inventory(os, ifs, ipseq, cs) == [objs |-> os, ifaces |-> ifs, ips |-> ipseq, clusters |-> cs]

Inventories ==
    { \* an empty NetBox
      Inventory(<<>>, <<>>, <<>>, <<>>),
      \* primary IPs held as resolved IP address objects
      Inventory(<< WithRole(Device(<<"old1">>, <<"site1">>, SlotObj(1)), <<"Router">>),
                   VM(<<"vm2">>, <<"az1">>, SlotObj(2), SlotNone) >>,
                << Iface(NBInterface, 1, "eth0", HostMac), VNic(2, "FA:16:3E:00:00:09") >>,
                << Ip(A1_24, 1, FALSE, 1), Ip(A2_16, 2, FALSE, 2) >>,
                << Cluster(<<"az1">>, <<"site1">>, GroupName, NoName) >>),
      \* primary IPs held as embedded values and as ids
      Inventory(<< Device(<<"old1">>, <<"site1">>, SlotDict(A1_24)),
                   VM(<<"vmold">>, <<"az1">>, SlotInt(2), SlotDict(B1)) >>,
                << Iface(NBInterface, 1, "eth0", "FA:16:3E:00:00:01") >>,
                << Ip(A2_16, 2, FALSE, 0) >>,
                << Cluster(<<"az1">>, <<"other">>, NoName, NoName) >>),
      \* two VMs whose interfaces carry the same MAC, a third with the IP
      Inventory(<< VM(<<"va">>, <<"az1">>, SlotNone, SlotNone),
                   VM(<<"vb">>, <<"az1">>, SlotNone, SlotNone),
                   VM(<<"vc">>, <<"az1">>, SlotDict(A1_24), SlotNone) >>,
                << VNic(1, "FA:16:3E:00:00:01"), VNic(2, "FA:16:3E:00:00:01") >>,
                <<>>,
                <<>>),
      \* the name, the MAC and the primary IP of vm1 on three different VMs
      Inventory(<< WithRole(VM(<<"vm1">>, <<"az1">>, SlotNone, SlotNone), <<"Db">>),
                   VM(<<"va">>, <<"az1">>, SlotNone, SlotNone),
                   VM(<<"vc">>, <<"az1">>, SlotDict(A1_24), SlotNone) >>,
                << VNic(2, "FA:16:3E:00:00:01") >>,
                <<>>,
                <<>>) }

(***************************************************************************)
(* Specification Spec: apply()                                             *)
(***************************************************************************)
MaxClusters == 2
MaxEntities == 2
MaxVolumes == 1
\* the greatest number of addresses of one network in Servers
MaxAddresses == 2

At(phase) == [pc EXCEPT !.phase = phase, !.n = 0]

Init ==
    /\ set_primary_ip \in {"always", "when-undefined", "never"}
    /\ \E inv \in Inventories :
          objs = inv.objs /\ ifaces = inv.ifaces /\ ips = inv.ips /\ clusters = inv.clusters
    /\ SessionInit
    /\ pc = [phase |-> "clusters", n |-> 0, entities |-> 0]
    /\ last = [op |-> "init"]

\* lines 176-178
ClusterStep ==
    /\ pc.phase = "clusters" /\ pc.n < MaxClusters
    /\ \E availability_zone \in AvailabilityZones : add_cluster(availability_zone)
    /\ pc' = [pc EXCEPT !.n = @ + 1]
    /\ UNCHANGED set_primary_ip

\* lines 180-182
HostStep ==
    /\ pc.phase = "hosts" /\ pc.entities < MaxEntities
    /\ \E hypervisor \in Hypervisors : add_host(hypervisor)
    /\ pc' = IF last'.skip = "ValueError" THEN [pc EXCEPT !.phase = "aborted"]
             ELSE [pc EXCEPT !.entities = @ + 1]
    /\ UNCHANGED set_primary_ip

\* lines 184-186
VolumeStep ==
    /\ pc.phase = "volumes" /\ pc.n < MaxVolumes
    /\ \E volume \in Volumes : add_volume(volume)
    /\ pc' = [pc EXCEPT !.n = @ + 1]
    /\ UNCHANGED set_primary_ip

\* lines 188-190; an exception ends apply()
ServerStep ==
    /\ pc.phase = "vms" /\ pc.entities < MaxEntities
    /\ \E server \in Servers : add_virtual_machine(server)
    /\ pc' = IF last'.skip \in {"KeyError", "ValueError"} THEN [pc EXCEPT !.phase = "aborted"]
             ELSE [pc EXCEPT !.entities = @ + 1]
    /\ UNCHANGED set_primary_ip

\* apply() with the servers' loop in front of the volumes' loop
next_loop_vms_before_volumes(phase) ==
    CASE phase = "clusters" -> "hosts"
      [] phase = "hosts" -> "vms"
      [] phase = "vms" -> "volumes"
      [] phase = "volumes" -> "done"

\* the loop of apply() that follows the loop phase (after the servers:
\* update_basic_data, and apply() returns)
next_loop(phase) ==
    CASE phase = "clusters" -> "hosts"
      [] phase = "hosts" -> "volumes"
      [] phase = "volumes" -> "vms"
      [] phase = "vms" -> "done"

\* the source sequence of the phase is exhausted: the next loop of apply()
\* begins
NextPhase ==
    /\ pc.phase \in {"clusters", "hosts", "volumes", "vms"}
    /\ pc' = At(next_loop(pc.phase))
    /\ last' = [op |-> "next_phase"]
    /\ UNCHANGED <<set_primary_ip, inventory_vars, session_vars>>

Next == ClusterStep \/ HostStep \/ VolumeStep \/ ServerStep \/ NextPhase

Spec == Init /\ [][Next]_vars

(***************************************************************************)
(* Specification SpecSession: __init__, then apply() on a session that may *)
(* fail                                                                    *)
(***************************************************************************)
\* what openstack.connect does: it returns a session, raises gaierror or
\* OSError, or raises another exception
ConnectOutcomes == {"session", "OSError", "Exception"}

\* a session that is not None always counts as initialised
init_successful_always(enabled, session) == TRUE

\* lines 82-92: init_successful is set if the source is enabled and
\* create_openstack_session left a session
init_successful_after(enabled, session) == enabled /\ session # "None"

\* lines 104-146: self.session after create_openstack_session
create_openstack_session(outcome) == IF outcome = "session" THEN "connected" ELSE "None"

InitSession ==
    /\ set_primary_ip \in {"always", "when-undefined", "never"}
    /\ \E inv \in Inventories :
          objs = inv.objs /\ ifaces = inv.ifaces /\ ips = inv.ips /\ clusters = inv.clusters
    /\ SessionInit
    /\ pc = [phase |-> "init", n |-> 0, entities |-> 0, session |-> "None",
             init_successful |-> FALSE]
    /\ last = [op |-> "init"]

\* lines 66-99: __init__. A disabled source is not connected; an exception
\* other than gaierror and OSError is logged with e.msg, which raises
\* AttributeError out of __init__ unless the exception has that attribute
Construct ==
    /\ pc.phase = "init"
    /\ \E enabled \in BOOLEAN, outcome \in ConnectOutcomes, has_msg \in BOOLEAN :
          LET session == IF enabled THEN create_openstack_session(outcome) ELSE "None"
              raised == enabled /\ outcome = "Exception" /\ ~has_msg
          IN  /\ pc' = [pc EXCEPT !.phase = IF raised THEN "raised" ELSE "constructed",
                                  !.session = session,
                                  !.init_successful =
                                      ~raised /\ init_successful_after(enabled, session)]
              /\ last' = [op |-> "__init__", enabled |-> enabled, outcome |-> outcome]
    /\ UNCHANGED <<set_primary_ip, inventory_vars, session_vars>>

\* the caller runs apply() on the sources that are initialised
CallApply ==
    /\ pc.phase = "constructed" /\ pc.init_successful
    /\ pc' = At("clusters")
    /\ last' = [op |-> "apply"]
    /\ UNCHANGED <<set_primary_ip, inventory_vars, session_vars>>

\* lines 176-190: a request to the source, or the iteration of its answer,
\* raises; nothing in apply() catches it
SourceFailure ==
    /\ pc.phase \in {"clusters", "hosts", "volumes", "vms"}
    /\ pc' = [pc EXCEPT !.phase = "aborted"]
    /\ last' = [op |-> "source_failure", phase |-> pc.phase]
    /\ UNCHANGED <<set_primary_ip, inventory_vars, session_vars>>

NextSession ==
    \/ Construct \/ CallApply \/ SourceFailure
    \/ ClusterStep \/ HostStep \/ VolumeStep \/ ServerStep \/ NextPhase

SpecSession == InitSession /\ [][NextSession]_vars

\* a step of apply() that processes an entity or moves to the next loop
IsApplyStep(op) ==
    op \in {"add_cluster", "add_host", "add_volume", "add_virtual_machine", "next_phase"}

\* C22: a handler whose session could not be established is never marked
\* initialised and processes no entity; when the source fails in the middle
\* of a run the inventory is left as it is (nothing is rolled back) and the
\* run has ended: no step follows.
C22_ConnectivityFailure ==
    [][/\ pc.phase \notin {"aborted", "raised"}
       /\ pc'.session = "None" => ~pc'.init_successful
       /\ IsApplyStep(last'.op) => pc.session # "None" /\ pc.init_successful
       /\ last'.op = "source_failure" =>
             /\ UNCHANGED <<inventory_vars, session_vars>>
             /\ pc'.phase = "aborted"]_vars

\* the source fails after a host was reconciled, which stays in the inventory
C22_Witness ==
    /\ last.op = "source_failure" /\ pc.phase = "aborted"
    /\ processed_host_names # NoDict
    /\ \E i \in DOMAIN objs : objs[i].type = NBDevice /\ objs[i].name = <<"h2">>

\* the session could not be established
C22_UnavailableWitness ==
    /\ last.op = "__init__" /\ last.enabled /\ last.outcome = "OSError"
    /\ pc.session = "None" /\ ~pc.init_successful

(***************************************************************************)
(* Properties of Spec: primary IP addresses                                *)
(***************************************************************************)
\* the current state is the result of a call of add_device_vm_to_inventory
IsReconciled == last.op \in {"add_host", "add_virtual_machine"} /\ last.skip = "no"

\* the devices and VMs of os whose primary_ip{ip_version} is the IP address
\* object x
Holders(os, ip_version, x) ==
    {i \in DOMAIN os : primary_slot(os[i], ip_version) = SlotObj(x)}

\* the primary IP declared for that IP version (NoLit: none)
DeclaredPrimary(ip_version) ==
    IF last.args.p_ipv4.ver = ip_version THEN last.args.p_ipv4
    ELSE IF last.args.p_ipv6.ver = ip_version THEN last.args.p_ipv6
    ELSE NoLit

\* the primary-IP step ran for an IP address object of that version
Arbitrated(ip_version) == \E k \in DOMAIN last.arbs : last.arbs[k].ip_version = ip_version

\* C1: every IP address object is the primary_ip4 of at most one device or
\* VM and the primary_ip6 of at most one (the inventories of Init are such),
\* in every state of a run, whatever the policy.
C1_ExclusivePrimaryIp ==
    \A x \in DOMAIN ips : \A ip_version \in {4, 6} :
        Cardinality(Holders(objs, ip_version, x)) <= 1

WasSet(ip_version) ==
    /\ ~last.created
    /\ primary_slot(last.before.objs[last.device_vm_object], ip_version) # SlotNone

\* C3: under "when-undefined", a reconciled object whose primary_ip{v} was
\* set keeps it, whatever primary IP is declared; one whose primary_ip{v} was
\* unset (a new object included) has the IP address object of the declared
\* primary IP as primary_ip{v} once that object went through the primary-IP
\* step; and primary_ip4 and primary_ip6 of every other device and VM are what
\* they were.
C3_WhenUndefined ==
    (IsReconciled /\ set_primary_ip = "when-undefined") =>
        /\ \A ip_version \in {4, 6} :
              IF WasSet(ip_version)
              THEN primary_slot(objs[last.device_vm_object], ip_version)
                      = primary_slot(last.before.objs[last.device_vm_object], ip_version)
              ELSE IF Arbitrated(ip_version)
              THEN /\ primary_slot(objs[last.device_vm_object], ip_version).form = "obj"
                   /\ ip_interface(ips[primary_slot(objs[last.device_vm_object],
                                                    ip_version).ip].address)
                         = ip_interface(DeclaredPrimary(ip_version))
              ELSE primary_slot(objs[last.device_vm_object], ip_version) = SlotNone
        /\ \A a \in DOMAIN last.before.objs \ {last.device_vm_object} :
              /\ objs[a].primary_ip4 = last.before.objs[a].primary_ip4
              /\ objs[a].primary_ip6 = last.before.objs[a].primary_ip6

\* C3 happens: the object held a primary IP, another one was declared and
\* went through the primary-IP step, and the object holds what it held
C3_Witness ==
    /\ IsReconciled /\ set_primary_ip = "when-undefined"
    /\ \E k \in DOMAIN last.arbs :
          /\ WasSet(last.arbs[k].ip_version)
          /\ primary_slot(last.before.objs[last.device_vm_object], last.arbs[k].ip_version)
                # SlotObj(last.arbs[k].ip_object)
          /\ primary_slot(objs[last.device_vm_object], last.arbs[k].ip_version)
                = primary_slot(last.before.objs[last.device_vm_object],
                               last.arbs[k].ip_version)

\* the other case of C3 happens: an object found with primary_ip{v} unset got
\* the declared primary IP although another object holds it
C3_UnsetSlotWitness ==
    /\ IsReconciled /\ set_primary_ip = "when-undefined" /\ ~last.created
    /\ \E k \in DOMAIN last.arbs :
          /\ ~WasSet(last.arbs[k].ip_version)
          /\ primary_slot(objs[last.device_vm_object], last.arbs[k].ip_version)
                = SlotObj(last.arbs[k].ip_object)

\* C4: under "never", primary_ip4 and primary_ip6 of every device and VM are
\* what they were before the call (unset, for the object the call created).
C4_NeverChangesNoPrimaryIp ==
    (IsReconciled /\ set_primary_ip = "never") =>
        \A a \in DOMAIN objs :
            IF a \in DOMAIN last.before.objs
            THEN /\ objs[a].primary_ip4 = last.before.objs[a].primary_ip4
                 /\ objs[a].primary_ip6 = last.before.objs[a].primary_ip6
            ELSE objs[a].primary_ip4 = SlotNone /\ objs[a].primary_ip6 = SlotNone

\* C4 happens: a declared primary IP went through the primary-IP step of an
\* object whose primary_ip{v} is unset, and of one that holds another IP
C4_Witness ==
    /\ IsReconciled /\ set_primary_ip = "never"
    /\ \E k \in DOMAIN last.arbs :
          primary_slot(objs[last.device_vm_object], last.arbs[k].ip_version) = SlotNone
    /\ \E a \in DOMAIN objs : \E x \in DOMAIN ips : objs[a].primary_ip4 = SlotObj(x)

(***************************************************************************)
(* Properties of Spec: duplicate names                                     *)
(***************************************************************************)
\* the registry of the handler that made the step
RegistryOf(op) == IF op = "add_host" THEN processed_host_names ELSE processed_vm_names

RejectedByFilter(name, include_filter, exclude_filter) ==
    \/ \E k \in DOMAIN include_filter : name \notin include_filter[k].matches
    \/ \E k \in DOMAIN exclude_filter : name \in exclude_filter[k].matches

\* the hypervisor obj has no cluster, or one that is not permitted, or a name
\* the host filter rejects
HostRejected(obj) ==
    \/ \A i \in DOMAIN cluster_host_map : obj.host \notin Range(cluster_host_map[i][2])
    \/ \E i \in DOMAIN cluster_host_map :
          /\ obj.host \in Range(cluster_host_map[i][2])
          /\ \A j \in 1..(i - 1) : obj.host \notin Range(cluster_host_map[j][2])
          /\ cluster_host_map[i][1] \notin DictKeys(permitted_clusters)
    \/ RejectedByFilter(obj.name, Settings.host_include_filter, Settings.host_exclude_filter)

\* the server obj has no availability zone, or one that is not permitted, or
\* a name the VM filter rejects
ServerRejected(obj) ==
    \/ obj.availability_zone = NoName
    \/ obj.availability_zone \notin DictKeys(permitted_clusters)
    \/ RejectedByFilter(obj.name, Settings.vm_include_filter, Settings.vm_exclude_filter)

\* C16: a host or VM whose cluster cannot be resolved or is not permitted, or
\* whose name the host or VM filter rejects, is skipped: the inventory is
\* unchanged and the loop goes on to the next entity.
C16_RejectedSkipped ==
    [][(\/ last'.op = "add_host" /\ HostRejected(last'.obj)
        \/ last'.op = "add_virtual_machine" /\ ServerRejected(last'.obj))
       => (/\ last'.skip # "no"
           /\ UNCHANGED inventory_vars
           /\ pc'.phase = pc.phase /\ pc'.entities = pc.entities + 1)]_vars

\* C16 happens: a VM of an availability zone that is not permitted was
\* skipped, the inventory holding objects
C16_Witness ==
    /\ last.op = "add_virtual_machine" /\ last.skip # "no"
    /\ last.obj.availability_zone # NoName
    /\ last.obj.availability_zone \notin DictKeys(permitted_clusters)
    /\ permitted_clusters # NoDict /\ objs # <<>>

\* a host without a cluster was skipped
C16_HostClusterWitness ==
    /\ last.op = "add_host" /\ last.skip # "no"
    /\ \A i \in DOMAIN cluster_host_map : last.obj.host \notin Range(cluster_host_map[i][2])
    /\ cluster_host_map # NoDict

\* a host and a VM that the filters reject were skipped
C16_HostFilterWitness ==
    /\ last.op = "add_host" /\ last.skip # "no"
    /\ \E i \in DOMAIN cluster_host_map : last.obj.host \in Range(cluster_host_map[i][2])
    /\ RejectedByFilter(last.obj.name, Settings.host_include_filter,
                        Settings.host_exclude_filter)

C16_ServerFilterWitness ==
    /\ last.op = "add_virtual_machine" /\ last.skip # "no"
    /\ last.obj.availability_zone \in DictKeys(permitted_clusters)
    /\ RejectedByFilter(last.obj.name, Settings.vm_include_filter,
                        Settings.vm_exclude_filter)

(***************************************************************************)
(* Properties of Spec: order of a run                                      *)
(***************************************************************************)
\* the position of a loop of apply() in a full run
PhaseRank(phase) ==
    CASE phase = "clusters" -> 1
      [] phase = "hosts" -> 2
      [] phase = "volumes" -> 3
      [] phase = "vms" -> 4
      [] phase \in {"done", "aborted"} -> 5

\* the loop of apply() that calls the handler op
PhaseOf(op) ==
    CASE op = "add_cluster" -> "clusters"
      [] op = "add_host" -> "hosts"
      [] op = "add_volume" -> "volumes"
      [] op = "add_virtual_machine" -> "vms"

\* a step of the run is the call of a handler on one entity
IsHandlerCall(op) ==
    op \in {"add_cluster", "add_host", "add_volume", "add_virtual_machine"}

C29_TypeConsistent ==
    IsReconciled =>
        /\ objs[last.device_vm_object].type = last.type
        /\ ~last.created => last.before.objs[last.device_vm_object].type = last.type

\* a VM is reconciled while an interface of a Device carries its MAC address
C29_Witness ==
    /\ IsReconciled /\ last.type = NBVM
    /\ \E f \in DOMAIN last.before.ifaces :
          /\ last.before.ifaces[f].kind = NBInterface
          /\ last.before.ifaces[f].mac_address \in Range(nic_macs_of(last.args.vnic_data))

\* a host is reconciled while a VM has its address as primary IP; a VM is
\* found by its primary IP while a Device has that address as primary IP
C29_HostIpWitness ==
    /\ IsReconciled /\ last.type = NBDevice
    /\ \E i \in DOMAIN last.before.objs :
          /\ last.before.objs[i].type = NBVM
          /\ matches_device_primary_ip(last.before.ips, last.before.objs[i].primary_ip4,
                                       split_slash_0(last.args.p_ipv4))

C29_VmIpWitness ==
    /\ IsReconciled /\ last.type = NBVM /\ last.tier = "ip"
    /\ \E i \in DOMAIN last.before.objs :
          /\ last.before.objs[i].type = NBDevice
          /\ i < last.device_vm_object
          /\ matches_device_primary_ip(last.before.ips, last.before.objs[i].primary_ip4,
                                       split_slash_0(last.args.p_ipv4))

(***************************************************************************)
(* Properties of Spec: invalid address literals                            *)
(***************************************************************************)
\* the addresses the source delivers for the hypervisor or server obj
AddressesOf(op, obj) ==
    IF op = "add_host" THEN {obj.host_ip}
    ELSE UNION {{obj.addresses[i][2][j].addr : j \in DOMAIN obj.addresses[i][2]} :
                   i \in DOMAIN obj.addresses}

\* C17: a host or VM that passes the cluster, duplicate-name and filter tests
\* (and whose volumes are known) and has an address that is no valid IP
\* address literal is still created or updated, and the run is not aborted.
C17_InvalidAddressSkipped ==
    (/\ last.op \in {"add_host", "add_virtual_machine"}
     /\ \E lit \in AddressesOf(last.op, last.obj) : ~valid_literal(lit)
     /\ last.skip \notin {"cluster", "not_permitted", "duplicate", "filter", "KeyError"})
    => (last.skip = "no" /\ pc.phase # "aborted")

(***************************************************************************)
(* Properties of Spec: two VMs of one name, roles                          *)
(***************************************************************************)
\* the VMs of the inventory with the name and cluster of the last call
NamedLikeLast ==
    {i \in DOMAIN objs : /\ objs[i].type = NBVM
                         /\ objs[i].name = last.name
                         /\ objs[i].scope = last.scope}

\* C19: when an active VM is skipped because an earlier VM of the source
\* sequence had its name in its cluster, the inventory's VM of that name
\* carries the data of an active VM.
C19_ActiveVmFirst ==
    (/\ last.op = "add_virtual_machine"
     /\ last.skip = "duplicate"
     /\ last.obj.status = "ACTIVE")
    => \A i \in NamedLikeLast : objs[i].status = "active"

\* the role resolved for the entity of the last call, NoName if no rule
\* matches
ResolvedRole ==
    get_object_relation(last.name,
        IF last.type = NBDevice THEN Settings.host_role_relation
        ELSE Settings.vm_role_relation, FALSE, FALSE, NoName)

\* the role the reconciled object had before the call, NoName for a new one
RoleBefore ==
    IF last.created THEN NoName ELSE last.before.objs[last.device_vm_object].role

\* C20: after reconciling a Device its role is the resolved role, or
\* "Server" when no rule matches; after reconciling a VM its role is the
\* resolved role, or the role it had before when no rule matches.
C20_RoleAssigned ==
    IsReconciled =>
        objs[last.device_vm_object].role =
            IF ResolvedRole # NoName THEN ResolvedRole
            ELSE IF last.type = NBDevice THEN <<"Server">>
            ELSE RoleBefore

\* a VM that had a role is updated and no rule matches its name
C20_Witness ==
    /\ IsReconciled /\ last.type = NBVM
    /\ ResolvedRole = NoName
    /\ RoleBefore # NoName
    /\ objs[last.device_vm_object].role = RoleBefore

\* a Device that had another role gets the default role
C20_DefaultWitness ==
    /\ IsReconciled /\ last.type = NBDevice
    /\ ResolvedRole = NoName
    /\ RoleBefore \notin {NoName, <<"Server">>}
    /\ objs[last.device_vm_object].role = <<"Server">>

\* a rule matches: Device and VM get the resolved role
C20_ResolvedWitness ==
    /\ IsReconciled
    /\ ResolvedRole # NoName
    /\ objs[last.device_vm_object].role = ResolvedRole

(***************************************************************************)
(* Properties of Spec: prefix enrichment                                   *)
(***************************************************************************)
\* the lengths of the prefixes that contain the address lit, of the site
\* site_name only or (NoName) of every site
MatchingLengths(lit, site_name) ==
    {q.prefixlen : q \in {r \in Prefixes : /\ lit.ip \in r.hosts
                                           /\ site_name # NoName => r.site = site_name}}

\* the address lit with the greatest of the lengths L, unchanged if L is empty
WithLongest(lit, L) ==
    IF L = {} THEN lit
    ELSE Lit(lit.ver, lit.ip, <<CHOOSE l \in L : \A k \in L : k <= l>>)

\* the site of the host or VM of the last call
SiteOfLast ==
    IF last.type = NBDevice THEN last.scope
    ELSE get_site_name("NBCluster", last.scope, NoName)

\* the address of the site first, then of all sites
SiteFirst(lit, site_name) ==
    IF MatchingLengths(lit, site_name) # {}
    THEN WithLongest(lit, MatchingLengths(lit, site_name))
    ELSE WithLongest(lit, MatchingLengths(lit, NoName))

\* the address lit of the last call's entity, enriched from the prefixes of
\* the site first (a VM's, and a host's if hosts_too) or from all prefixes
Enriched(lit, hosts_too) ==
    IF last.type = NBVM \/ hosts_too THEN SiteFirst(lit, SiteOfLast)
    ELSE WithLongest(lit, MatchingLengths(lit, NoName))

\* the addresses handed to add_device_vm_to_inventory are the source's
\* addresses, each enriched
EnrichedBy(hosts_too) ==
    IF last.type = NBDevice
    THEN last.args.nic_ips = << <<"eth0", <<Enriched(last.obj.host_ip, hosts_too)>> >> >>
    ELSE /\ Len(last.args.nic_ips) = Len(last.obj.addresses)
         /\ \A i \in DOMAIN last.obj.addresses :
               /\ last.args.nic_ips[i][1] = last.obj.addresses[i][1]
               /\ last.args.nic_ips[i][2] =
                     [j \in DOMAIN last.obj.addresses[i][2] |->
                         Enriched(last.obj.addresses[i][2][j].addr, hosts_too)]

C21_HostWitness ==
    /\ IsReconciled /\ last.type = NBDevice
    /\ last.obj.host_ip = A3 /\ last.scope = <<"site1">>
    /\ last.args.nic_ips = << <<"eth0", <<Lit(4, "10.0.0.3", <<28>>)>> >> >>

\* a VM's address that no prefix of its site contains, and one that no prefix
\* contains
C21_FallbackWitness ==
    /\ IsReconciled /\ last.type = NBVM
    /\ \E i \in DOMAIN last.obj.addresses : \E j \in DOMAIN last.obj.addresses[i][2] :
          /\ last.obj.addresses[i][2][j].addr = A2
          /\ last.args.nic_ips[i][2][j] = A2_16

C21_NoPrefixWitness ==
    /\ IsReconciled /\ last.type = NBVM
    /\ \E i \in DOMAIN last.obj.addresses : \E j \in DOMAIN last.obj.addresses[i][2] :
          /\ last.obj.addresses[i][2][j].addr = A9
          /\ last.args.nic_ips[i][2][j] = A9

(***************************************************************************)
(* Properties of Spec: failures of one entity                              *)
(***************************************************************************)
\* C23: the processing of a host or VM whose addresses are all valid ends
\* with the entity reconciled or skipped, and the run goes on in the same
\* loop: no condition of one entity (here: an attached volume that is not in
\* the volume map) keeps the entities after it from being processed.
C23_EntityFailureIsolated ==
    [][(/\ last'.op \in {"add_host", "add_virtual_machine"}
        /\ \A lit \in AddressesOf(last'.op, last'.obj) : valid_literal(lit))
       => /\ last'.skip \in {"no", "cluster", "not_permitted", "duplicate", "filter"}
          /\ pc'.phase = pc.phase]_vars

(***************************************************************************)
(* Properties of Spec: the registries of processed names                   *)
(***************************************************************************)
\* C24: a host or VM that the filter rejected is not in the registry of
\* processed names of its scope: a name is registered only when its entity
\* was created or updated.
C24_RegisteredOnlyWhenReconciled ==
    (/\ last.op \in {"add_host", "add_virtual_machine"}
     /\ last.skip = "filter")
    => last.name \notin Range(DictGetList(RegistryOf(last.op), last.scope))

(***************************************************************************)
(* Properties of Spec: what arbitration changes                            *)
(***************************************************************************)
\* primary_ip{ip_version} of the device or VM i before the last call (unset
\* for an object the call created)
SlotBefore(i, ip_version) ==
    IF i \in DOMAIN last.before.objs THEN primary_slot(last.before.objs[i], ip_version)
    ELSE SlotNone

\* the arbitrations of the last call for the IP version
ArbsOf(ip_version) == {a \in Range(last.arbs) : a.ip_version = ip_version}

\* C25: under "always" the only primary slots a reconciliation changes are
\* primary_ip{v} of its entity E, set to an IP object X it arbitrated, and
\* primary_ip{v} of other devices and VMs that held such an X, which are
\* cleared, and only when X was not newly created.  E is never cleared, and
\* slots of the other version or holding another IP object are unchanged.
C25_AlwaysFrame ==
    (IsReconciled /\ set_primary_ip = "always") =>
        \A i \in DOMAIN objs : \A v \in {4, 6} :
            primary_slot(objs[i], v) # SlotBefore(i, v) =>
                IF i = last.device_vm_object
                THEN \E a \in ArbsOf(v) : primary_slot(objs[i], v) = SlotObj(a.ip_object)
                ELSE /\ primary_slot(objs[i], v) = SlotNone
                     /\ \E a \in ArbsOf(v) : /\ ~a.is_new
                                             /\ SlotBefore(i, v) = SlotObj(a.ip_object)

\* E takes the IP object X over from another entity, which is cleared
C25_Witness ==
    /\ IsReconciled /\ set_primary_ip = "always"
    /\ \E a \in Range(last.arbs) : \E i \in DOMAIN objs \ {last.device_vm_object} :
          /\ ~a.is_new
          /\ SlotBefore(i, a.ip_version) = SlotObj(a.ip_object)
          /\ primary_slot(objs[i], a.ip_version) = SlotNone
          /\ primary_slot(objs[last.device_vm_object], a.ip_version) = SlotObj(a.ip_object)

\* an arbitration for an IP object that is not new leaves another entity's
\* slot holding a different IP object
C25_OtherIpWitness ==
    /\ IsReconciled /\ set_primary_ip = "always"
    /\ \E a \in Range(last.arbs) : \E i \in DOMAIN objs \ {last.device_vm_object} :
          /\ ~a.is_new
          /\ \E x \in DOMAIN ips : /\ x # a.ip_object
                                   /\ SlotBefore(i, a.ip_version) = SlotObj(x)
                                   /\ primary_slot(objs[i], a.ip_version) = SlotObj(x)

(***************************************************************************)
(* Properties of Spec: when arbitration runs                               *)
(***************************************************************************)
\* the interfaces declared in the last call (nic_data)
DeclaredNics ==
    IF last.type = NBVM THEN last.args.vnic_data
    ELSE dict_merge(last.args.pnic_data, last.args.vnic_data)

\* the interfaces of the reconciled entity that the last call reconciled
ReconciledIfaces ==
    {f \in DOMAIN ifaces :
        /\ ifaces[f].owner = last.device_vm_object
        /\ \E n \in DOMAIN DeclaredNics : ifaces[f].name = DeclaredNics[n][2].name}

\* the lit is the primary IPv4 or IPv6 address declared in the last call
EqualsDeclaredPrimary(lit) ==
    \E q \in {last.args.p_ipv4, last.args.p_ipv6} \ {NoLit} :
        ip_interface(lit) = ip_interface(q)

\* the IP objects attached to a reconciled interface whose address is a
\* declared primary address
PrimaryIpObjects ==
    {x \in DOMAIN ips : /\ ips[x].interface \in ReconciledIfaces
                        /\ EqualsDeclaredPrimary(ips[x].address)}

\* how often the arbiter ran for the IP object x in the last call
TimesArbitrated(x) == Cardinality({k \in DOMAIN last.arbs : last.arbs[k].ip_object = x})

\* how often address lit is declared on the interfaces of the last call
TimesDeclared(lit) ==
    Cardinality({p \in (DOMAIN last.args.nic_ips) \X (1..MaxAddresses) :
        /\ \E n \in DOMAIN DeclaredNics :
              DeclaredNics[n][1] = last.args.nic_ips[p[1]][1]
        /\ p[2] \in DOMAIN last.args.nic_ips[p[1]][2]
        /\ ip_interface(last.args.nic_ips[p[1]][2][p[2]]) = ip_interface(lit)})

\* each primary slot of the reconciled entity holds what it held or an IP
\* object with a declared primary address
SlotsFromDeclared ==
    \A v \in {4, 6} :
        \/ primary_slot(objs[last.device_vm_object], v) = SlotBefore(last.device_vm_object, v)
        \/ \E x \in DOMAIN ips :
              /\ primary_slot(objs[last.device_vm_object], v) = SlotObj(x)
              /\ EqualsDeclaredPrimary(ips[x].address)

\* C26 as stated: the arbiter runs exactly once for each IP object attached
\* to a reconciled interface whose address is a declared primary address,
\* and for no other IP object; each primary slot of the entity holds its
\* previous value or an IP object with a declared primary address.
C26_OncePerIpObject ==
    IsReconciled =>
        /\ \A k \in DOMAIN last.arbs : last.arbs[k].ip_object \in PrimaryIpObjects
        /\ \A x \in PrimaryIpObjects : TimesArbitrated(x) = 1
        /\ SlotsFromDeclared

\* C26 (amended): the arbiter runs only for IP objects attached to a
\* reconciled interface whose address is a declared primary address, and for
\* each of them once per declaration of the address on a reconciled
\* interface (twice when two interfaces declare it); each primary slot of
\* the entity holds its previous value or an IP object with a declared
\* primary address.
C26_OncePerInterfaceIp ==
    IsReconciled =>
        /\ \A k \in DOMAIN last.arbs : last.arbs[k].ip_object \in PrimaryIpObjects
        /\ \A x \in PrimaryIpObjects :
              /\ TimesArbitrated(x) >= 1
              /\ TimesArbitrated(x) = TimesDeclared(ips[x].address)
        /\ SlotsFromDeclared

\* two interfaces of a VM declare the primary address: two arbitrations
C26_Witness ==
    /\ IsReconciled
    /\ \E x \in PrimaryIpObjects : TimesArbitrated(x) = 2

\* an interface carries the primary address and another address: one
\* arbitration, none for the other address
C26_OtherAddressWitness ==
    /\ IsReconciled
    /\ Len(last.arbs) = 1
    /\ \E x \in DOMAIN ips : /\ ips[x].interface \in ReconciledIfaces
                             /\ ~EqualsDeclaredPrimary(ips[x].address)
                             /\ TimesArbitrated(x) = 0

(***************************************************************************)
(* Properties of Spec: addresses the permitted-subnet policy rejects       *)
(***************************************************************************)
\* the IP objects with the address lit
IpObjectsOf(lit) == {x \in DOMAIN ips : ip_interface(ips[x].address) = ip_interface(lit)}

\* the last call declared an interface for the network
NetworkDeclared(network) ==
    \E n \in DOMAIN last.args.vnic_data : last.args.vnic_data[n][1] = network

C27_OtherNetworkWitness ==
    /\ IsReconciled /\ last.type = NBVM
    /\ \E i, k \in DOMAIN last.args.nic_ips :
          /\ NetworkDeclared(last.args.nic_ips[i][1])
          /\ ~NetworkDeclared(last.args.nic_ips[k][1])
          /\ \E j \in DOMAIN last.args.nic_ips[k][2] :
                last.args.nic_ips[k][2][j].ip \in ExcludedSubnetHosts

\* C28: a host is skipped as a duplicate only if its name is registered for
\* its own site in the registry of hosts, a VM only if its name is registered
\* for its own cluster in the registry of VMs: the same name in another
\* scope, or in the other registry, causes no skip.
C28_DuplicateScoped ==
    [][(/\ last'.op \in {"add_host", "add_virtual_machine"}
        /\ last'.skip = "duplicate")
       => last'.name \in Range(DictGetList(RegistryOf(last'.op), last'.scope))]_vars

\* the scopes other than that of the last call in which the registry reg had
\* the name of the last call
OtherScopesWithName(reg) ==
    {i \in DOMAIN reg : reg[i][1] # last.scope /\ last.name \in Range(reg[i][2])}

\* a second host of the same name, of another site, is reconciled
C28_Witness ==
    /\ IsReconciled /\ last.op = "add_host"
    /\ OtherScopesWithName(processed_host_names) # {}

\* a second VM of the same name, of another cluster, is reconciled
C28_VmWitness ==
    /\ IsReconciled /\ last.op = "add_virtual_machine"
    /\ OtherScopesWithName(processed_vm_names) # {}

(***************************************************************************)
(* Properties of Spec: the bookkeeping of clusters                         *)
(***************************************************************************)
\* the availability zone of this name passes the cluster filter
PassesClusterFilter(name) ==
    /\ name # NoName
    /\ ~RejectedByFilter(name, Settings.cluster_include_filter,
                         Settings.cluster_exclude_filter)

\* C30: the permitted clusters, the cluster-to-host map and the cluster
\* cache always have the same cluster names as keys; a call of add_cluster
\* adds the name of its availability zone to them if it passes the cluster
\* filter, and nothing else changes the keys; a host is reconciled only if a
\* cluster that passed the filter lists it.
C30_ClusterBookkeeping ==
    [][/\ DictKeys(permitted_clusters') = DictKeys(cluster_host_map')
       /\ DictKeys(permitted_clusters') = DictKeys(object_cache')
       /\ DictKeys(permitted_clusters') =
             DictKeys(permitted_clusters) \cup
                (IF last'.op = "add_cluster" /\ PassesClusterFilter(last'.name)
                 THEN {last'.name} ELSE {})
       /\ (last'.op = "add_host" /\ last'.skip = "no") =>
             \E i \in DOMAIN cluster_host_map :
                /\ last'.obj.host \in Range(cluster_host_map[i][2])
                /\ cluster_host_map[i][1] \in DictKeys(permitted_clusters)
                /\ PassesClusterFilter(cluster_host_map[i][1])]_vars

\* one availability zone passed the filter and one was rejected by it
C30_Witness ==
    /\ last.op = "add_cluster" /\ last.skip = "filter"
    /\ DictKeys(permitted_clusters) = {<<"az1">>}
    /\ DictKeys(cluster_host_map) = {<<"az1">>}
    /\ DictKeys(object_cache) = {<<"az1">>}

\* a host of a cluster that passed the filter is reconciled, the same service
\* host being listed by an availability zone the filter rejected
C30_HostWitness ==
    /\ IsReconciled /\ last.op = "add_host"
    /\ DictKeys(permitted_clusters) = {<<"az1">>, <<"az2">>}

(***************************************************************************)
(* Properties of Spec: the site of clusters and hosts                      *)
(***************************************************************************)
\* the value of the first rule of the table that matches the name (a
\* cluster-site rule also through the name without its first segment),
\* NoName if none does
FirstRule(name, relation, is_cluster) ==
    get_object_relation(name, relation, is_cluster, FALSE, NoName)

\* the site of a cluster: its first matching cluster-site rule, else the
\* default site of the source
ExpectedClusterSite(cluster_name) ==
    IF FirstRule(cluster_name, Settings.cluster_site_relation, TRUE) # NoName
    THEN FirstRule(cluster_name, Settings.cluster_site_relation, TRUE)
    ELSE DefaultSite

\* the site of a host: its first matching host-site rule, else the site of
\* its cluster
ExpectedHostSite(name, cluster_name) ==
    IF FirstRule(name, Settings.host_site_relation, FALSE) # NoName
    THEN FirstRule(name, Settings.host_site_relation, FALSE)
    ELSE ExpectedClusterSite(cluster_name)

\* the host of the last call got as far as the resolution of its site
HostSiteResolved ==
    /\ last.op = "add_host"
    /\ last.skip \in {"no", "duplicate", "filter", "ValueError"}

\* C31: the site resolved for a cluster that add_cluster accepts is its first
\* matching cluster-site rule, else the default site; the site resolved for a
\* host is its first matching host-site rule, else the site of the cluster
\* that lists it; it is never "no site", and it is the site the host is
\* looked up under in the registry of processed names and stored under.
C31_SiteResolution ==
    /\ (last.op = "add_cluster" /\ last.skip = "no") =>
          /\ last.site_name = ExpectedClusterSite(last.name)
          /\ last.site_name # NoName
          /\ clusters[last.cluster_object].site = last.site_name
    /\ HostSiteResolved =>
          /\ last.scope = ExpectedHostSite(last.name,
                              get_cluster_for_host(cluster_host_map, last.obj.host))
          /\ last.scope # NoName
          /\ last.skip # "duplicate" =>
                last.name \in Range(DictGetList(processed_host_names, last.scope))
          /\ last.skip = "no" => objs[last.device_vm_object].scope = last.scope

\* a host with a matching host-site rule in a cluster of another site
C31_Witness ==
    /\ IsReconciled /\ last.op = "add_host"
    /\ last.name = <<"hs">> /\ last.scope = <<"site2">>
    /\ ExpectedClusterSite(get_cluster_for_host(cluster_host_map, last.obj.host))
          = <<"site1">>
    /\ objs[last.device_vm_object].scope = <<"site2">>

\* a host without host-site rule, in a cluster with a cluster-site rule and
\* in one without
C31_ClusterRuleWitness ==
    /\ IsReconciled /\ last.op = "add_host"
    /\ last.name = <<"h1">> /\ last.scope = <<"site1">>

C31_DefaultWitness ==
    /\ IsReconciled /\ last.op = "add_host"
    /\ last.name = <<"h1">> /\ last.scope = DefaultSite

(***************************************************************************)
(* Properties of Spec: the primary IP addresses declared for a VM          *)
(***************************************************************************)
\* the positions <<network, address>> of the addresses of that IP version of
\* the server of the last call
PositionsOf(ip_version) ==
    {p \in (DOMAIN last.obj.addresses) \X (1..MaxAddresses) :
        /\ p[2] \in DOMAIN last.obj.addresses[p[1]][2]
        /\ last.obj.addresses[p[1]][2][p[2]].version = ip_version}

\* position p comes before position q in the iteration over the networks
\* and their addresses
ComesBefore(p, q) == p[1] < q[1] \/ (p[1] = q[1] /\ p[2] < q[2])

\* the last address of that IP version, as handed over (with its prefix
\* length); NoLit if the server has none
LastAddressOf(ip_version) ==
    IF PositionsOf(ip_version) = {} THEN NoLit
    ELSE LET q == CHOOSE q \in PositionsOf(ip_version) :
                     \A p \in PositionsOf(ip_version) \ {q} : ComesBefore(p, q)
         IN  last.args.nic_ips[q[1]][2][q[2]]

C32_BothVersionsWitness ==
    /\ IsReconciled /\ last.type = NBVM
    /\ last.args.p_ipv4 # NoLit /\ last.args.p_ipv6 # NoLit
    /\ \E x \in IpObjectsOf(last.args.p_ipv6) :
          primary_slot(objs[last.device_vm_object], 6) = SlotObj(x)

(***************************************************************************)
(* Properties of Spec: identity resolution                                 *)
(***************************************************************************)
\* what each tier yields on the inventory before the call
ExactMatch ==
    get_by_data(last.before.objs, last.type, [name |-> last.name, scope |-> last.scope])

DeclaredMacs ==
    nic_macs_of(IF last.type = NBVM THEN last.args.vnic_data ELSE last.args.pnic_data)

MacMatch == get_object_based_on_macs(last.before.ifaces, last.type, DeclaredMacs)

PrimaryIpMatch ==
    get_object_based_on_primary_ip(last.before.objs, last.before.ips, last.type,
                                   last.args.p_ipv4, last.args.p_ipv6)

\* the object i was updated with the declared name and scope, nothing created
Updated(i) ==
    /\ last.device_vm_object = i /\ ~last.created
    /\ Len(objs) = Len(last.before.objs)
    /\ objs[i].name = last.name /\ objs[i].scope = last.scope

\* exactly one object was created, with the declared name and scope
CreatedOne ==
    /\ last.created /\ Len(objs) = Len(last.before.objs) + 1
    /\ last.device_vm_object = Len(objs)
    /\ objs[Len(objs)].type = last.type
    /\ objs[Len(objs)].name = last.name /\ objs[Len(objs)].scope = last.scope
    /\ \A i \in DOMAIN last.before.objs :
          objs[i].name = last.before.objs[i].name /\ objs[i].scope = last.before.objs[i].scope

\* C6: the object of the exact match is used if there is one, else the one of
\* the MAC tier if it yields one, else the one of the primary-IP tier if it
\* yields one; the object used is updated and none is created; when no tier
\* yields an object exactly one is created.
C6_TierOrder ==
    IsReconciled =>
        IF ExactMatch # NoObject THEN Updated(ExactMatch) /\ last.tier = "exact"
        ELSE IF MacMatch # NoObject THEN Updated(MacMatch) /\ last.tier = "mac"
        ELSE IF PrimaryIpMatch # NoObject THEN Updated(PrimaryIpMatch) /\ last.tier = "ip"
        ELSE CreatedOne /\ last.tier = "none"

\* C6 happens: the three tiers point to three different objects, the one of
\* the exact match was updated
C6_Witness ==
    /\ IsReconciled
    /\ ExactMatch # NoObject /\ MacMatch # NoObject /\ PrimaryIpMatch # NoObject
    /\ ExactMatch # MacMatch /\ MacMatch # PrimaryIpMatch /\ ExactMatch # PrimaryIpMatch
    /\ Updated(ExactMatch)

\* the MAC tier is preferred to a different object of the primary-IP tier
C6_MacBeforeIpWitness ==
    /\ IsReconciled /\ ExactMatch = NoObject
    /\ MacMatch # NoObject /\ PrimaryIpMatch # NoObject /\ MacMatch # PrimaryIpMatch
    /\ Updated(MacMatch)

\* no tier yields an object and one object is created
C6_CreatedWitness ==
    /\ IsReconciled /\ last.before.objs # <<>>
    /\ ExactMatch = NoObject /\ MacMatch = NoObject /\ PrimaryIpMatch = NoObject
    /\ CreatedOne

\* the device interfaces of the inventory before the call that carry the MAC
\* address of the host
HostMacInterfaces ==
    {i \in DOMAIN last.before.ifaces :
        /\ last.before.ifaces[i].kind = NBInterface
        /\ last.before.ifaces[i].mac_address = last.obj.mac_address}

\* C11: a host with no exact match whose MAC address is the MAC address of
\* exactly one device interface of the inventory: the device of that
\* interface is updated and none is created.
C11_HostMacUpdatesDevice ==
    (IsReconciled /\ last.op = "add_host" /\ ExactMatch = NoObject
                  /\ Cardinality(HostMacInterfaces) = 1) =>
        \A i \in HostMacInterfaces :
            is_device_or_vm(last.before.ifaces[i].owner) =>
                Updated(last.before.ifaces[i].owner)

\* the number of interfaces of the declared kind, owned by the resolved
\* object o, that carry one of the declared MAC addresses
DeclaredMacTally(o) ==
    Cardinality({i \in DOMAIN last.before.ifaces :
                    /\ last.before.ifaces[i].kind
                          = (IF last.type = NBDevice THEN NBInterface ELSE NBVMInterface)
                    /\ last.before.ifaces[i].mac_address \in Range(DeclaredMacs)
                    /\ last.before.ifaces[i].owner = o})

DeclaredMacOwners == {o \in DOMAIN last.before.objs : DeclaredMacTally(o) > 0}

\* two or more owners, and the tally of every owner is less than twice the
\* tally of some other owner (the ratio of the two highest is below 2.0)
AmbiguousMacs ==
    /\ Cardinality(DeclaredMacOwners) >= 2
    /\ \A o1 \in DeclaredMacOwners : \E o2 \in DeclaredMacOwners \ {o1} :
          DeclaredMacTally(o1) < RatioThreshold * DeclaredMacTally(o2)

\* C10 as stated: with no exact match and an ambiguous MAC tier a new object
\* is created and no existing object is updated; the run goes on.
C10_AmbiguousCreates ==
    (IsReconciled /\ ExactMatch = NoObject /\ AmbiguousMacs) =>
        CreatedOne /\ pc.phase # "aborted"

\* C10, amended: with no exact match and an ambiguous MAC tier the MAC tier
\* yields nothing and the primary-IP tier decides: the object it yields is
\* updated and none is created, and exactly one object is created only when
\* it yields none; the run goes on.
C10_AmbiguousGoesToPrimaryIp ==
    (IsReconciled /\ ExactMatch = NoObject /\ AmbiguousMacs) =>
        /\ MacMatch = NoObject
        /\ IF PrimaryIpMatch # NoObject
           THEN Updated(PrimaryIpMatch) /\ last.tier = "ip"
           ELSE CreatedOne /\ last.tier = "none"
        /\ pc.phase # "aborted"

\* C10 happens: ambiguous MAC addresses, the object of the primary-IP tier updated
C10_Witness ==
    /\ IsReconciled /\ ExactMatch = NoObject /\ AmbiguousMacs
    /\ PrimaryIpMatch # NoObject /\ Updated(PrimaryIpMatch)

\* ambiguous MAC addresses, no primary-IP match: an object is created
C10_CreatedWitness ==
    /\ IsReconciled /\ ExactMatch = NoObject /\ AmbiguousMacs
    /\ PrimaryIpMatch = NoObject /\ CreatedOne

(***************************************************************************)
(* Specification SpecRelation: get_object_relation on bounded rule tables  *)
(***************************************************************************)
MaxRules == 3

\* a cluster name with a path prefix, and the same name without it
RelationNames == {<<"dc1", "c1">>, <<"c1">>}

RelationRules ==
    {Relation(Regex(S), assigned_name) :
        S \in SUBSET RelationNames, assigned_name \in {<<"x">>, <<"y">>}}

InitRelation ==
    /\ set_primary_ip = "never"
    /\ objs = <<>> /\ ifaces = <<>> /\ ips = <<>> /\ clusters = <<>>
    /\ SessionInit
    /\ pc = [phase |-> "call", n |-> 0]
    /\ last = [op |-> "init"]

CallRelation ==
    /\ last.op = "init"
    /\ \E name \in RelationNames, is_cluster \in BOOLEAN, is_tag \in BOOLEAN,
          fallback \in {NoName, <<"fallback">>},
          relation \in UNION {[1..n -> RelationRules] : n \in 0..MaxRules} :
          last' = [op |-> "relation", name |-> name, relation |-> relation,
                   is_cluster |-> is_cluster, is_tag |-> is_tag, fallback |-> fallback,
                   result |-> get_object_relation(name, relation, is_cluster, is_tag,
                                                  fallback)]
    /\ UNCHANGED <<set_primary_ip, inventory_vars, session_vars, pc>>

NextRelation == CallRelation

SpecRelation == InitRelation /\ [][NextRelation]_vars

\* rule k of the table matches the full name
MatchesFullName(k) == regex_match(last.relation[k].object_regex, last.name)

\* rule k matches the name without its first segment
MatchesStrippedName(k) ==
    regex_match(last.relation[k].object_regex, strip_first_segment(last.name))

\* rule k is a matching rule: it matches the name, or, for a cluster
\* category, the name without its first segment
MatchingRule(k) == MatchesFullName(k) \/ (last.is_cluster /\ MatchesStrippedName(k))

\* the j-th smallest element of the set M of numbers
Nth(M, j) == CHOOSE k \in M : Cardinality({m \in M : m < k}) = j - 1

\* the list res holds the assigned names of the rules M, in configured order
ListsRules(res, M) ==
    /\ Len(res) = Cardinality(M)
    /\ \A j \in 1..Len(res) : res[j] = last.relation[Nth(M, j)].assigned_name

\* the value res is the assigned name of the first rule of M, the fallback
\* when M is empty
FirstOfRules(res, M) ==
    IF M = {} THEN res = last.fallback
    ELSE res = last.relation[Nth(M, 1)].assigned_name

\* C12: for a tag category the result is the list of the assigned names of
\* all matching rules in configured order (the empty list when there is
\* none); for another category it is the assigned name of the first matching
\* rule, and the fallback when no rule matches.
C12_ListOrFirst ==
    last.op = "relation" =>
        IF last.is_tag
        THEN ListsRules(last.result, {k \in DOMAIN last.relation : MatchingRule(k)})
        ELSE FirstOfRules(last.result, {k \in DOMAIN last.relation : MatchingRule(k)})

\* C12 happens: two rules match; a tag category returns both, in order
C12_Witness ==
    /\ last.op = "relation" /\ last.is_tag
    /\ Cardinality({k \in DOMAIN last.relation : MatchingRule(k)}) = 2
    /\ last.result = <<<<"y">>, <<"x">>>>

\* C12 happens: two rules match, another category returns the first one
C12_FirstWitness ==
    /\ last.op = "relation" /\ ~last.is_tag /\ last.fallback # NoName
    /\ Cardinality({k \in DOMAIN last.relation : MatchingRule(k)}) = 2
    /\ ~MatchingRule(1)
    /\ last.result = <<"y">> /\ last.relation[3].assigned_name = <<"x">>

\* C13 as stated: for a cluster category, when at least one rule matches the
\* full name the result is that of the full-name matches alone; the rules
\* are matched against the stripped name only when none matches the full name.
C13_StrippedOnlyIfNoFullMatch ==
    (last.op = "relation" /\ last.is_cluster) =>
        IF \E k \in DOMAIN last.relation : MatchesFullName(k)
        THEN IF last.is_tag
             THEN ListsRules(last.result, {k \in DOMAIN last.relation : MatchesFullName(k)})
             ELSE FirstOfRules(last.result,
                               {k \in DOMAIN last.relation : MatchesFullName(k)})
        ELSE IF last.is_tag
             THEN ListsRules(last.result,
                             {k \in DOMAIN last.relation : MatchesStrippedName(k)})
             ELSE FirstOfRules(last.result,
                               {k \in DOMAIN last.relation : MatchesStrippedName(k)})

\* C13, amended: for a cluster category each rule is matched against the full
\* name and, when that rule does not match it, against the stripped name,
\* whatever the other rules do: a rule that matches the stripped name alone
\* counts as a match, in its configured position, even when another rule
\* matches the full name.
C13_StrippedPerRule ==
    (last.op = "relation" /\ last.is_cluster) =>
        \A k \in DOMAIN last.relation :
            (/\ MatchesStrippedName(k)
             /\ \A j \in 1..(k - 1) : ~MatchesFullName(j) /\ ~MatchesStrippedName(j))
            => IF last.is_tag
               THEN last.result # <<>> /\ last.result[1] = last.relation[k].assigned_name
               ELSE last.result = last.relation[k].assigned_name

\* C13 happens: the first rule matches the stripped name alone, a later rule
\* matches the full name, and the first rule decides
C13_Witness ==
    /\ last.op = "relation" /\ last.is_cluster /\ ~last.is_tag
    /\ Len(last.relation) >= 2
    /\ ~MatchesFullName(1) /\ MatchesStrippedName(1)
    /\ MatchesFullName(2)
    /\ last.relation[1].assigned_name # last.relation[2].assigned_name
    /\ last.result = last.relation[1].assigned_name

(***************************************************************************)
(* Specification SpecFilter: passes_filter on every pair of filters        *)
(***************************************************************************)
FilterNames == {<<"n1">>, <<"n2">>, <<"n3">>}

\* None, or a pattern
FilterChoices == {<<>>} \cup {<<Regex(S)>> : S \in SUBSET FilterNames}

InitFilter ==
    /\ set_primary_ip = "never"
    /\ objs = <<>> /\ ifaces = <<>> /\ ips = <<>> /\ clusters = <<>>
    /\ SessionInit
    /\ pc = [phase |-> "call", n |-> 0]
    /\ last = [op |-> "init"]

CallFilter ==
    /\ last.op = "init"
    /\ \E name \in FilterNames, include_filter \in FilterChoices,
          exclude_filter \in FilterChoices :
          last' = [op |-> "filter", name |-> name, include_filter |-> include_filter,
                   exclude_filter |-> exclude_filter,
                   result |-> passes_filter(name, include_filter, exclude_filter)]
    /\ UNCHANGED <<set_primary_ip, inventory_vars, session_vars, pc>>

NextFilter == CallFilter

SpecFilter == InitFilter /\ [][NextFilter]_vars

\* C14: passes_filter is true if and only if (no include pattern is
\* configured or the include pattern matches the name) and (no exclude
\* pattern is configured or the exclude pattern does not match the name).
C14_PassesFilter ==
    last.op = "filter" =>
        (last.result <=>
            /\ \A k \in DOMAIN last.include_filter : last.name \in last.include_filter[k].matches
            /\ \A k \in DOMAIN last.exclude_filter : last.name \notin last.exclude_filter[k].matches)

\* C14 happens: both patterns are configured and match, the name is rejected
C14_Witness ==
    /\ last.op = "filter" /\ last.include_filter # <<>> /\ last.exclude_filter # <<>>
    /\ last.name \in last.include_filter[1].matches
    /\ last.name \in last.exclude_filter[1].matches
    /\ ~last.result

\* only an exclude pattern, which does not match: the name passes
C14_ExcludeOnlyWitness ==
    /\ last.op = "filter" /\ last.include_filter = <<>> /\ last.exclude_filter # <<>>
    /\ last.name \notin last.exclude_filter[1].matches
    /\ last.result

(***************************************************************************)
(* Specification SpecCluster: add_cluster on bounded lists of clusters     *)
(***************************************************************************)
MaxCandidates == 3

\* the availability zone that is added
AddedZone == [name |-> <<"az2">>, hosts |-> <<"c2">>]

CandidateChoices ==
    {Cluster(name, site, group, tenant) :
        name \in {<<"az2">>, <<"az1">>}, site \in {DefaultSite, <<"site1">>},
        group \in {GroupName, NoName}, tenant \in {<<"tenant1">>, NoName}}

InitCluster ==
    /\ set_primary_ip = "never"
    /\ objs = <<>> /\ ifaces = <<>> /\ ips = <<>>
    /\ clusters \in UNION {[1..n -> CandidateChoices] : n \in 0..MaxCandidates}
    /\ SessionInit
    /\ pc = [phase |-> "call", n |-> 0]
    /\ last = [op |-> "init"]

CallCluster ==
    /\ pc.n = 0
    /\ add_cluster(AddedZone)
    /\ pc' = [pc EXCEPT !.n = 1]
    /\ UNCHANGED set_primary_ip

NextCluster == CallCluster

SpecCluster == InitCluster /\ [][NextCluster]_vars

\* the current state is the result of add_cluster on a zone that passed the
\* cluster filter
ClusterAdded == last.op = "add_cluster" /\ last.skip = "no"

\* the candidates, by what they match
NameMatches == {k \in DOMAIN last.before : last.before[k].name = last.name}
SiteMatches == {k \in NameMatches : last.before[k].site = last.site_name}
GroupMatches == {k \in NameMatches : last.before[k].group = GroupName}
TenantMatches ==
    {k \in NameMatches : /\ last.tenant_name # NoName
                         /\ last.before[k].tenant = last.tenant_name}

\* candidate k was selected (and updated), no cluster was created
Selected(k) ==
    /\ last.cluster_object = k /\ ~last.created
    /\ Len(clusters) = Len(last.before)
    /\ clusters[k].site = last.site_name /\ clusters[k].group = GroupName

FirstOf(M) == CHOOSE k \in M : \A m \in M : k <= m

\* a new cluster was created
ClusterCreated ==
    /\ last.created /\ Len(clusters) = Len(last.before) + 1
    /\ last.cluster_object = Len(clusters)
    /\ clusters[Len(clusters)].name = last.name

\* C15 as stated: a candidate matching name and site is selected if there is
\* one; else one matching name and group; else one matching name and tenant;
\* else the first candidate with the name; else a cluster is created. This
\* whatever the order of the candidates.
C15_RulePriority ==
    ClusterAdded =>
        IF SiteMatches # {} THEN \E k \in SiteMatches : Selected(k)
        ELSE IF GroupMatches # {} THEN \E k \in GroupMatches : Selected(k)
        ELSE IF TenantMatches # {} THEN \E k \in TenantMatches : Selected(k)
        ELSE IF NameMatches # {} THEN Selected(FirstOf(NameMatches))
        ELSE ClusterCreated

\* C15, amended: the first candidate, in iteration order, that has the name
\* and matches on the site, the group or the tenant is selected (a candidate
\* matching on the group or the tenant is selected although a later one
\* matches on the site); when there is none, the first candidate with the
\* name; when no candidate has the name a cluster is created.
C15_FirstCandidateInOrder ==
    ClusterAdded =>
        IF SiteMatches \cup GroupMatches \cup TenantMatches # {}
        THEN Selected(FirstOf(SiteMatches \cup GroupMatches \cup TenantMatches))
        ELSE IF NameMatches # {} THEN Selected(FirstOf(NameMatches))
        ELSE ClusterCreated

\* C15 happens: a candidate matching on the tenant alone comes before one
\* matching on the site, and the first was selected
C15_Witness ==
    /\ ClusterAdded /\ Len(last.before) = 3
    /\ 1 \in NameMatches /\ 1 \notin SiteMatches \cup GroupMatches \cup TenantMatches
    /\ 2 \in TenantMatches /\ 2 \notin SiteMatches \cup GroupMatches
    /\ 3 \in SiteMatches
    /\ Selected(2)

\* only the name matches, on two candidates: the first was selected
C15_FallbackWitness ==
    /\ ClusterAdded /\ Cardinality(NameMatches) = 2
    /\ SiteMatches \cup GroupMatches \cup TenantMatches = {}
    /\ Selected(FirstOf(NameMatches)) /\ FirstOf(NameMatches) = 2

(***************************************************************************)
(* Specification SpecMacs: get_object_based_on_macs on bounded inventories *)
(***************************************************************************)
MaxIfaces == 4
MaxTally == 10

MacObjs ==
    << Obj(NBVM, "vm1", "az1", SlotNone, SlotNone),
       Obj(NBVM, "vm2", "az1", SlotNone, SlotNone),
       Obj(NBVM, "vm3", "az1", SlotNone, SlotNone),
       Obj(NBDevice, "host1", "site1", SlotNone, SlotNone) >>

\* the interfaces an inventory may hold: virtual ones of the three VMs or of
\* an unresolved owner, a physical one of the device
MacIfaceChoices ==
    {Iface(NBVMInterface, o, "eth", m) : o \in 0..3, m \in {"m1", "m2"}}
        \cup {Iface(NBInterface, 4, "eth", "m1")}

\* n1 interfaces of vm1 and n2 of vm2 that all carry MAC m1, in both orders
BlockIfaces(n1, n2, rev) ==
    [i \in 1..(n1 + n2) |->
        IF (i <= n1) # rev THEN Iface(NBVMInterface, 1, "eth", "m1")
                          ELSE Iface(NBVMInterface, 2, "eth", "m1")]

MacInventories ==
    UNION {[1..n -> MacIfaceChoices] : n \in 0..MaxIfaces}
        \cup {BlockIfaces(n1, n2, rev) : n1 \in 1..MaxTally, n2 \in 1..MaxTally,
                                         rev \in BOOLEAN}

InitMacs ==
    /\ set_primary_ip = "never"
    /\ objs = MacObjs
    /\ ifaces \in MacInventories
    /\ ips = <<>>
    /\ clusters = <<>>
    /\ SessionInit
    /\ pc = [phase |-> "call", n |-> 0]
    /\ last = [op |-> "init"]

CallMacs ==
    /\ last.op = "init"
    /\ \E object_type \in {NBDevice, NBVM}, mac_list \in {<<>>, <<"m1">>, <<"m2", "m1">>} :
          last' = [op |-> "macs", object_type |-> object_type, mac_list |-> mac_list,
                   result |-> get_object_based_on_macs(ifaces, object_type, mac_list)]
    /\ UNCHANGED <<set_primary_ip, inventory_vars, session_vars, pc>>

NextMacs == CallMacs

SpecMacs == InitMacs /\ [][NextMacs]_vars

\* the number of interfaces of the kind searched whose MAC is in the list and
\* whose owner is the object o
MacTally(o) ==
    LET interface_typ == IF last.object_type = NBDevice THEN NBInterface ELSE NBVMInterface
    IN  Cardinality({i \in DOMAIN ifaces : /\ ifaces[i].kind = interface_typ
                                           /\ ifaces[i].mac_address \in Range(last.mac_list)
                                           /\ ifaces[i].owner = o})

MacOwners == {o \in DOMAIN objs : MacTally(o) > 0}

MaxOf(S) == CHOOSE x \in S : \A y \in S : y <= x

\* the two highest tallies c1 >= c2 (two or more owners)
MacC1 == MaxOf({MacTally(o) : o \in MacOwners})
MacC2 ==
    LET top == CHOOSE o \in MacOwners : MacTally(o) = MacC1
    IN  MaxOf({MacTally(o) : o \in MacOwners \ {top}})

C8_SingleOwnerReturned ==
    (last.op = "macs" /\ Cardinality(MacOwners) = 1) => last.result \in MacOwners

(***************************************************************************)
(* Specification SpecPrimaryIp: get_object_based_on_primary_ip             *)
(***************************************************************************)
MaxPipObjs == 2


PipIps == << Ip(A1_24, 1, FALSE, 0), Ip(B1_64, 2, FALSE, 0) >>

PipObjChoices ==
    {Obj(t, "n", "s", p4, p6) :
        t \in {NBDevice, NBVM},
        p4 \in {SlotNone, SlotDict(A1_24), SlotInt(1), SlotInt(7), SlotObj(1)},
        p6 \in {SlotNone, SlotDict(B1_64)}}

InitPrimaryIp ==
    /\ set_primary_ip = "never"
    /\ objs \in UNION {[1..n -> PipObjChoices] : n \in 0..MaxPipObjs}
    /\ ifaces = <<>>
    /\ ips = PipIps
    /\ clusters = <<>>
    /\ SessionInit
    /\ pc = [phase |-> "call", n |-> 0]
    /\ last = [op |-> "init"]

CallPrimaryIp ==
    /\ last.op = "init"
    /\ \E object_type \in {NBDevice, NBVM}, p4 \in {NoLit, A1_24, A2}, p6 \in {NoLit, B1} :
          last' = [op |-> "pip", object_type |-> object_type, p4 |-> p4, p6 |-> p6,
                   result |-> get_object_based_on_primary_ip(objs, ips, object_type, p4, p6)]
    /\ UNCHANGED <<set_primary_ip, inventory_vars, session_vars, pc>>

NextPrimaryIp == CallPrimaryIp

SpecPrimaryIp == InitPrimaryIp /\ [][NextPrimaryIp]_vars

\* object i is of the requested type and its primary_ip4 (primary_ip6) address
\* equals the address searched for
PipMatches4(i) ==
    /\ objs[i].type = last.object_type
    /\ last.p4 # NoLit
    /\ matches_device_primary_ip(ips, objs[i].primary_ip4, split_slash_0(last.p4))
PipMatches6(i) ==
    /\ objs[i].type = last.object_type
    /\ last.p6 # NoLit
    /\ matches_device_primary_ip(ips, objs[i].primary_ip6, split_slash_0(last.p6))

\* C9 as stated: whenever some object of the requested type matches on
\* primary_ip4, the object returned is one matching on primary_ip4 (an object
\* matching on primary_ip6 alone is returned only if none matches on IPv4).
C9_Ip4Precedence ==
    (last.op = "pip" /\ \E i \in DOMAIN objs : PipMatches4(i)) =>
        (last.result # NoObject /\ PipMatches4(last.result))

\* C9 amended: the object returned is the first object of the requested type,
\* in iteration order, that matches on primary_ip4 or on primary_ip6 (nothing
\* is returned when there is none); IPv4 takes precedence only within one object.
C9_FirstMatchInOrder ==
    last.op = "pip" =>
        IF \E i \in DOMAIN objs : PipMatches4(i) \/ PipMatches6(i)
        THEN /\ last.result \in DOMAIN objs
             /\ PipMatches4(last.result) \/ PipMatches6(last.result)
             /\ \A j \in 1..(last.result - 1) : ~(PipMatches4(j) \/ PipMatches6(j))
        ELSE last.result = NoObject

\* C9 witness: an object matching on primary_ip6 alone is returned although a
\* later object matches on primary_ip4
C9_Witness ==
    /\ last.op = "pip"
    /\ last.result # NoObject
    /\ ~PipMatches4(last.result) /\ PipMatches6(last.result)
    /\ \E j \in DOMAIN objs : j > last.result /\ PipMatches4(j)

====
